---- MODULE Spec2Model ----
(***************************************************************************)
(* The HTTP request router of the Stripe MCP server                        *)
(* (src/stripe/src/index.ts, main, TRANSPORT_TYPE = 'http').               *)
(*                                                                         *)
(* One step of the model is one callback run by the Node event loop: the   *)
(* request listener up to its first real suspension, the 'end' event of a  *)
(* request body, the 'close' event of a response.  Promise continuations   *)
(* that follow an await without I/O run in the same step, as microtasks    *)
(* run before the next I/O callback.                                       *)
(*                                                                         *)
(* The MCP SDK transports are collaborators: what a transport does with a  *)
(* forwarded request is a nondeterministic outcome.  Session identifiers   *)
(* come from randomUUID(): each call yields an identifier never produced   *)
(* before, and a client can present an identifier only after the server    *)
(* has issued it.  server.connect(transport) on a transport that was just  *)
(* created resolves; it keeps the onclose callback the router had set and  *)
(* calls it when the transport closes.                                     *)
(*                                                                         *)
(* The request listener is an async function whose promise nobody awaits:  *)
(* an exception that escapes it is an unhandled rejection, which ends the  *)
(* process on the Node versions the package supports (no handler for       *)
(* 'unhandledRejection' is installed).                                     *)
(*                                                                         *)
(* Every event is followed by Return, which only clears the record of the  *)
(* event (last) before the event loop takes the next one.                  *)
(***************************************************************************)
EXTENDS Integers, Sequences, FiniteSets, TLC

\* Bounds of the model.
MaxTransports == 2    \* transports created over a run
MaxPending == 1       \* POSTs of different clients whose body is being read
MaxArgs == 2          \* command-line arguments of the process
MaxRequests == 3      \* requests the serverless handler receives

VARIABLES
    transports,            \* every transport object created so far
    streamableTransports,  \* own entries of the streamable registry
    sseTransports,         \* own entries of the legacy SSE registry
    issued,                \* number of identifiers randomUUID() has produced
    pending,               \* POSTs waiting for their body, in arrival order
    crashed,               \* the process ended on an unhandled rejection
    last,                  \* the event the event loop ran last
    call,                  \* the tool call the dispatcher has handed to a handler
    startup,               \* the start of the process: arguments, output, exit
    serverless             \* the requests of the serverless handler

vars == <<transports, streamableTransports, sseTransports, issued, pending,
          crashed, last, call, startup, serverless>>

----------------------------------------------------------------------------
\* Values

\* The header (or query parameter) is not present: the read yields undefined.
Absent == "<absent>"

\* Result of reading a property that is neither own nor inherited.
Undefined == 0

\* Result of reading a property inherited from Object.prototype: a truthy
\* value that is no transport and has no handleRequest / handlePostMessage.
Inherited == -1

\* Names every object literal inherits from Object.prototype.
ObjectPrototypeKeys == {"constructor", "__proto__"}

UuidNames == <<"u1", "u2", "u3", "u4", "u5", "u6">>

\* The n-th identifier produced by randomUUID().
randomUUID(n) == UuidNames[n]

IssuedIds == {randomUUID(n) : n \in 1..issued}

\* What a client can put in the Mcp-Session-Id header or the sessionId
\* query parameter: nothing, the empty string, a well-formed identifier the
\* server never issued, an inherited property name, an issued identifier.
ClientIds == {Absent, "", "bogus", "constructor"} \cup IssuedIds

\* Request bodies: a JSON initialize request, another JSON-RPC message,
\* and text that is not JSON.
Bodies == {"initialize", "ping", "not json"}

\* A parser that accepts any text.
JSONparseLenient(body) == body

\* JSON.parse(text): the decoded value, or "throws".  A request body decodes
\* to the message it carries; the metadata text decodes to the object it
\* denotes; the empty text is not JSON.
JSONparse(body) ==
    IF body \in {"not json", ""} THEN "throws"
    ELSE IF body = "{\"category\":\"premium\"}" THEN "{category: premium}"
    ELSE body

isInitializeRequest(message) == message = "initialize"

\* JavaScript truthiness of a string | undefined.
TruthyId(sessionId) == sessionId \notin {Absent, ""}

\* JavaScript truthiness of the result of a registry read.
Truthy(v) == v # Undefined

IsTransport(v) == v >= 1

EmptyRegistry == [k \in {} |-> Undefined]

\* registry[key] on an object literal: own entry, inherited property, or
\* undefined.
Lookup(registry, key) ==
    IF key \in DOMAIN registry THEN registry[key]
    ELSE IF key \in ObjectPrototypeKeys THEN Inherited
    ELSE Undefined

\* registry[key] = t
Store(registry, key, t) ==
    [k \in DOMAIN registry \cup {key} |-> IF k = key THEN t ELSE registry[k]]

\* delete registry[key]
Delete(registry, key) == [k \in DOMAIN registry \ {key} |-> registry[k]]

NewTransport(kind, sessionId) ==
    [kind |-> kind, sessionId |-> sessionId, closed |-> FALSE]

\* The record of one event: the request (method, path, sid, body), the
\* branch of the listener or the callback that ran (ev), the transport the
\* router had looked up when the request arrived (captured), the answer the
\* router itself wrote (status 0: none), the transport the request was
\* handed to (fwd) and the transport the event created (made).  For a POST
\* whose body is read, pos is its place among the POSTs in flight, in the
\* order of their arrival (0: the event is no such POST).
Event(ev, method, path, sid, body, captured, r) ==
    [ev |-> ev, method |-> method, path |-> path, pos |-> 0,
     sid |-> sid, body |-> body, captured |-> captured,
     status |-> r.status, code |-> r.code, msg |-> r.msg,
     fwd |-> r.fwd, made |-> r.made]

\* What a handler did: the answer it wrote, the transport it called, the
\* transport it created, whether that transport initialized a session,
\* whether the called transport closed, whether the promise of the request
\* listener was rejected.
Result(status, code, msg, fwd, made, init, closes, rejects) ==
    [status |-> status, code |-> code, msg |-> msg, fwd |-> fwd, made |-> made,
     init |-> init, closes |-> closes, rejects |-> rejects]

\* res.writeHead(status); res.end(...) by the router.
Answer(status, code, msg) == Result(status, code, msg, 0, 0, FALSE, FALSE, FALSE)

NoAnswer == Answer(0, 0, "")

\* No callback is running: the event loop waits for the next event.
Idle == Event("idle", "", "", Absent, "", Undefined, NoAnswer)

----------------------------------------------------------------------------
\* The collaborators

\* What a transport does with a request handed to it: it handles it (an
\* initialize request starts its session, a DELETE closes it), it answers
\* with an error of its own and does nothing, or the call throws or rejects.
Outcomes == {"handled", "refused", "throws"}

ParseErrorCode == -32700
NoSessionCode == -32000

ParseError == Answer(400, ParseErrorCode, "Parse error")

\* The request was handed to transport t, which wrote the response.
Forwarded(t) == Result(0, 0, "", t, 0, FALSE, FALSE, FALSE)

\* An exception that leaves the async request listener: the promise it
\* returned is rejected and nothing handles the rejection.
Unhandled(t) == Result(0, 0, "", t, 0, FALSE, FALSE, TRUE)

\* A session callback that forgets to register the transport.
onsessioninitializedDropped(registry, sessionId, transport) == registry

\* A session callback that files every session under the identifier of the
\* first one.
onsessioninitializedReused(registry, sessionId, transport) ==
    Store(registry, randomUUID(1), transport)

\* onsessioninitialized: (sessionId) => { streamableTransports[sessionId] = transport }
onsessioninitialized(registry, sessionId, transport) ==
    Store(registry, sessionId, transport)

\* A close callback that leaves the registry alone.
oncloseKeeps(registry, transport) == registry

\* transport.onclose = () => { if (transport.sessionId) delete streamableTransports[transport.sessionId] }
onclose(registry, transport) ==
    IF TruthyId(transport.sessionId)
    THEN Delete(registry, transport.sessionId)
    ELSE registry

----------------------------------------------------------------------------
\* POST /mcp

\* The transport the listener binds when the request arrives; Undefined
\* sends the request to the branch that looks for an initialize request.
McpPostLookup(sessionId) ==
    LET found == Lookup(streamableTransports, sessionId)
    IN  IF TruthyId(sessionId) /\ Truthy(found) THEN found ELSE Undefined

\* req.on('end') of a POST that arrived without a registered session.
McpPostNoSession(sessionId, body, outcome) ==
    LET requestBody == JSONparse(body)
        found == Lookup(streamableTransports, sessionId)
        t == Len(transports) + 1
    IN  IF requestBody = "throws" THEN ParseError
        ELSE IF ~TruthyId(sessionId) /\ isInitializeRequest(requestBody)
        THEN IF outcome = "throws"
             THEN Result(400, ParseErrorCode, "Parse error", t, t, FALSE, FALSE, FALSE)
             ELSE Result(0, 0, "", t, t, outcome = "handled", FALSE, FALSE)
        ELSE IF TruthyId(sessionId) /\ Truthy(found)
        THEN IF ~IsTransport(found) THEN ParseError
             ELSE IF outcome = "throws"
             THEN Result(400, ParseErrorCode, "Parse error", found, 0, FALSE, FALSE, FALSE)
             ELSE Forwarded(found)
        ELSE Answer(400, NoSessionCode, "Bad Request: No valid session ID provided")

\* An 'end' callback that uses the transport created last instead of the
\* one bound on arrival.
McpPostSessionShared(transport, body, outcome) ==
    IF JSONparse(body) = "throws" THEN ParseError
    ELSE Forwarded(Len(transports))

\* req.on('end') of a POST whose identifier resolved when it arrived.
McpPostSession(transport, body, outcome) ==
    LET requestBody == JSONparse(body)
    IN  IF requestBody = "throws" THEN ParseError
        ELSE IF ~IsTransport(transport) THEN ParseError
        ELSE IF outcome = "throws"
        THEN Result(400, ParseErrorCode, "Parse error", transport, 0, FALSE, FALSE, FALSE)
        ELSE Forwarded(transport)

----------------------------------------------------------------------------
\* GET /mcp and DELETE /mcp

McpGetHandler(sessionId, outcome) ==
    LET found == Lookup(streamableTransports, sessionId)
    IN  IF ~TruthyId(sessionId) \/ ~Truthy(found)
        THEN Answer(400, 0, "Invalid or missing session ID")
        ELSE IF ~IsTransport(found) THEN Unhandled(0)
        ELSE IF outcome = "throws" THEN Unhandled(found)
        ELSE Forwarded(found)

McpDeleteHandler(sessionId, outcome) ==
    LET found == Lookup(streamableTransports, sessionId)
    IN  IF ~TruthyId(sessionId) \/ ~Truthy(found)
        THEN Answer(400, 0, "Invalid or missing session ID")
        ELSE IF ~IsTransport(found) THEN Unhandled(0)
        ELSE IF outcome = "throws" THEN Unhandled(found)
        ELSE Result(0, 0, "", found, 0, FALSE, outcome = "handled", FALSE)

----------------------------------------------------------------------------
\* The request listener's dispatch on method and path.

Methods == {"GET", "POST", "DELETE", "OPTIONS", "PUT"}
Paths == {"/mcp", "/sse", "/messages", "/health", "/", "/nope"}

Listener(method, path) ==
    IF method = "OPTIONS" THEN "options"
    ELSE IF path = "/mcp"
    THEN IF method = "POST" THEN "mcp post"
         ELSE IF method = "GET" THEN "mcp get"
         ELSE IF method = "DELETE" THEN "mcp delete"
         ELSE "mcp no branch"
    ELSE IF path = "/sse" /\ method = "GET" THEN "sse"
    ELSE IF path = "/messages" /\ method = "POST" THEN "messages"
    ELSE IF path = "/health" THEN "health"
    ELSE IF path = "/" THEN "index"
    ELSE "not found"

\* A dispatch without the final else: an unknown route gets no answer.
StaticHandlerNoFallback(branch) ==
    IF branch = "options" THEN Answer(200, 0, "")
    ELSE IF branch = "health" THEN Answer(200, 0, "healthy")
    ELSE IF branch = "index" THEN Answer(200, 0, "Stripe MCP Server")
    ELSE NoAnswer

\* A health check that reports the number of registered sessions.
StaticHandlerCounting(branch) ==
    IF branch = "options" THEN Answer(200, 0, "")
    ELSE IF branch = "health"
    THEN Answer(200, Cardinality(DOMAIN streamableTransports), "healthy")
    ELSE IF branch = "index" THEN Answer(200, 0, "Stripe MCP Server")
    ELSE IF branch = "not found" THEN Answer(404, 0, "Not found")
    ELSE NoAnswer

\* The branches that answer at once and touch no transport.
StaticHandler(branch) ==
    IF branch = "options" THEN Answer(200, 0, "")
    ELSE IF branch = "health" THEN Answer(200, 0, "healthy")
    ELSE IF branch = "index" THEN Answer(200, 0, "Stripe MCP Server")
    ELSE IF branch = "not found" THEN Answer(404, 0, "Not found")
    ELSE NoAnswer

StaticBranches == {"options", "health", "index", "not found", "mcp no branch"}

----------------------------------------------------------------------------
\* POST /messages

\* A lookup that falls back on the streamable registry.
MessagesLookupShared(sessionId) ==
    IF sessionId \in DOMAIN streamableTransports
    THEN streamableTransports[sessionId]
    ELSE Lookup(sseTransports, sessionId)

\* const transport = sseTransports[sessionId]; if (transport) ...
MessagesLookup(sessionId) == Lookup(sseTransports, sessionId)

\* req.on('end') of a POST on /messages whose identifier resolved.
MessagesPostSession(transport, body, outcome) ==
    LET message == JSONparse(body)
    IN  IF message = "throws" THEN Answer(400, 0, "Invalid JSON")
        ELSE IF ~IsTransport(transport) THEN Answer(400, 0, "Invalid JSON")
        ELSE IF outcome = "throws"
        THEN Result(400, 0, "Invalid JSON", transport, 0, FALSE, FALSE, FALSE)
        ELSE Forwarded(transport)

\* A 'close' callback that leaves the registry alone.
onrescloseKeeps(registry, sessionId) == registry

\* res.on("close", () => { delete sseTransports[sessionId] })
onresclose(registry, sessionId) == Delete(registry, sessionId)

----------------------------------------------------------------------------
\* The effect of a handler on the state of the process.

TransportsAfter(r) ==
    LET made == IF r.made = 0 THEN transports
                ELSE Append(transports,
                        NewTransport("streamable",
                            IF r.init THEN randomUUID(issued + 1) ELSE Absent))
    IN  IF r.closes THEN [made EXCEPT ![r.fwd].closed = TRUE] ELSE made

StreamableAfter(r) ==
    IF r.init
    THEN onsessioninitialized(streamableTransports, randomUUID(issued + 1), r.made)
    ELSE IF r.closes THEN onclose(streamableTransports, transports[r.fwd])
    ELSE streamableTransports

Apply(r) ==
    /\ r.made # 0 => Len(transports) < MaxTransports
    /\ transports' = TransportsAfter(r)
    /\ streamableTransports' = StreamableAfter(r)
    /\ issued' = IF r.init THEN issued + 1 ELSE issued
    /\ crashed' = r.rejects

----------------------------------------------------------------------------
\* No tool call is running.
NoCall == [stage |-> "none"]

\* The process has not been started.
NotStarted == [stage |-> "not started"]

\* The serverless handler has served no request: no server or transport
\* exists.
NoRequests == [requests |-> << >>, pairs |-> << >>]

Init ==
    /\ transports = << >>
    /\ streamableTransports = EmptyRegistry
    /\ sseTransports = EmptyRegistry
    /\ issued = 0
    /\ pending = << >>
    /\ crashed = FALSE
    /\ last = Idle
    /\ call = NoCall
    /\ startup = NotStarted
    /\ serverless = NoRequests

----------------------------------------------------------------------------
\* The event loop runs one callback at a time, and none after the process
\* has ended.
Ready == ~crashed /\ last = Idle

\* The callback returns to the event loop.
Return ==
    /\ last # Idle
    /\ last' = Idle
    /\ UNCHANGED <<transports, streamableTransports, sseTransports, issued,
                   pending, crashed>>
    /\ UNCHANGED <<call, startup, serverless>>

\* The outcomes to consider for a request: one when no transport is called.
OutcomesOf(found) == IF IsTransport(found) THEN Outcomes ELSE {"handled"}

----------------------------------------------------------------------------
\* A POST on /mcp arrives: the listener reads the header, looks the session
\* up and waits for the body.
McpPostListener(method, path, sessionId) ==
    /\ Ready
    /\ Listener(method, path) = "mcp post"
    /\ pending' = Append(pending, [route |-> path, sid |-> sessionId,
                                   transport |-> McpPostLookup(sessionId)])
    /\ last' = [Event("arrive", method, path, sessionId, "",
                      McpPostLookup(sessionId), NoAnswer)
                 EXCEPT !.pos = Len(pending) + 1]
    /\ UNCHANGED <<transports, streamableTransports, sseTransports, issued,
                   crashed>>
    /\ UNCHANGED <<call, startup, serverless>>

McpPostArrive(method, path, sessionId) ==
    /\ Len(pending) < MaxPending
    /\ McpPostListener(method, path, sessionId)

\* A client that has a POST on /mcp in flight sends another one with the
\* same header on a second connection, before the body of the first has
\* been read.
McpPostArriveConcurrent(method, path, sessionId) ==
    /\ Len(pending) = MaxPending
    /\ \E j \in 1..Len(pending) :
          pending[j].route = "/mcp" /\ pending[j].sid = sessionId
    /\ McpPostListener(method, path, sessionId)

RemoveAt(seq, i) == SubSeq(seq, 1, i - 1) \o SubSeq(seq, i + 1, Len(seq))

\* The body of the i-th waiting POST, a POST on /mcp, has been read.
McpPostEnd(i, body, outcome) ==
    /\ Ready
    /\ i \in 1..Len(pending)
    /\ pending[i].route = "/mcp"
    /\ LET p == pending[i]
           r == IF p.transport = Undefined
                THEN McpPostNoSession(p.sid, body, outcome)
                ELSE McpPostSession(p.transport, body, outcome)
       IN  /\ Apply(r)
           /\ last' = [Event("end", "POST", "/mcp", p.sid, body, p.transport, r)
                        EXCEPT !.pos = i]
    /\ pending' = RemoveAt(pending, i)
    /\ UNCHANGED sseTransports
    /\ UNCHANGED <<call, startup, serverless>>

McpGet(method, path, sessionId, outcome) ==
    /\ Ready
    /\ Listener(method, path) = "mcp get"
    /\ LET r == McpGetHandler(sessionId, outcome)
       IN  /\ Apply(r)
           /\ last' = Event("request", method, path, sessionId, "",
                            Lookup(streamableTransports, sessionId), r)
    /\ UNCHANGED <<sseTransports, pending>>
    /\ UNCHANGED <<call, startup, serverless>>

McpDelete(method, path, sessionId, outcome) ==
    /\ Ready
    /\ Listener(method, path) = "mcp delete"
    /\ LET r == McpDeleteHandler(sessionId, outcome)
       IN  /\ Apply(r)
           /\ last' = Event("request", method, path, sessionId, "",
                            Lookup(streamableTransports, sessionId), r)
    /\ UNCHANGED <<sseTransports, pending>>
    /\ UNCHANGED <<call, startup, serverless>>

\* GET /sse: a legacy transport is created with an identifier of its own,
\* registered, and connected to the server.
SseGet(method, path) ==
    /\ Ready
    /\ Listener(method, path) = "sse"
    /\ Len(transports) < MaxTransports
    /\ LET t == Len(transports) + 1
           sessionId == randomUUID(issued + 1)
       IN  /\ transports' = Append(transports, NewTransport("sse", sessionId))
           /\ sseTransports' = Store(sseTransports, sessionId, t)
           /\ last' = Event("request", method, path, Absent, "", Undefined,
                            Result(0, 0, "", t, t, TRUE, FALSE, FALSE))
    /\ issued' = issued + 1
    /\ UNCHANGED <<streamableTransports, pending, crashed>>
    /\ UNCHANGED <<call, startup, serverless>>

\* A POST on /messages arrives: answered at once when the sessionId query
\* parameter resolves to nothing, else the listener waits for the body.
MessagesPostArrive(method, path, sessionId) ==
    /\ Ready
    /\ Listener(method, path) = "messages"
    /\ LET transport == MessagesLookup(sessionId)
       IN  IF Truthy(transport)
           THEN /\ Len(pending) < MaxPending
                /\ pending' = Append(pending, [route |-> path, sid |-> sessionId,
                                               transport |-> transport])
                /\ last' = [Event("arrive", method, path, sessionId, "",
                                  transport, NoAnswer)
                            EXCEPT !.pos = Len(pending) + 1]
           ELSE /\ pending' = pending
                /\ last' = Event("request", method, path, sessionId, "", transport,
                                 Answer(400, 0, "No transport found for sessionId"))
    /\ UNCHANGED <<transports, streamableTransports, sseTransports, issued,
                   crashed>>
    /\ UNCHANGED <<call, startup, serverless>>

\* The body of the i-th waiting POST, a POST on /messages, has been read.
MessagesPostEnd(i, body, outcome) ==
    /\ Ready
    /\ i \in 1..Len(pending)
    /\ pending[i].route = "/messages"
    /\ LET p == pending[i]
           r == MessagesPostSession(p.transport, body, outcome)
       IN  last' = [Event("end", "POST", "/messages", p.sid, body, p.transport, r)
                    EXCEPT !.pos = i]
    /\ pending' = RemoveAt(pending, i)
    /\ UNCHANGED <<transports, streamableTransports, sseTransports, issued,
                   crashed>>
    /\ UNCHANGED <<call, startup, serverless>>

\* OPTIONS, /health, /, an unknown route, and a method on /mcp that no
\* branch of the listener handles.
StaticRequest(method, path) ==
    /\ Ready
    /\ Listener(method, path) \in StaticBranches
    /\ last' = Event(Listener(method, path), method, path, Absent, "", Undefined,
                     StaticHandler(Listener(method, path)))
    /\ UNCHANGED <<transports, streamableTransports, sseTransports, issued,
                   pending, crashed>>
    /\ UNCHANGED <<call, startup, serverless>>

\* A connection of the client of streamable session t closes (the stream of
\* a GET, the response of a POST, or the client going away): the router has
\* registered no callback for it.
StreamableSocketClose(t) ==
    /\ Ready
    /\ t \in 1..Len(transports)
    /\ transports[t].kind = "streamable"
    /\ TruthyId(transports[t].sessionId)
    /\ ~transports[t].closed
    /\ last' = Event("socket close", "", "", transports[t].sessionId, "", t, NoAnswer)
    /\ UNCHANGED <<transports, streamableTransports, sseTransports, issued,
                   pending, crashed>>
    /\ UNCHANGED <<call, startup, serverless>>

\* The connection of GET /sse closes and its response emits 'close': the
\* callback registered by the router runs, then the one the transport
\* registered when it started.
SseResClose(t) ==
    /\ Ready
    /\ t \in 1..Len(transports)
    /\ transports[t].kind = "sse"
    /\ ~transports[t].closed
    /\ sseTransports' = onresclose(sseTransports, transports[t].sessionId)
    /\ transports' = [transports EXCEPT ![t].closed = TRUE]
    /\ last' = Event("socket close", "", "", transports[t].sessionId, "", t, NoAnswer)
    /\ UNCHANGED <<streamableTransports, issued, pending, crashed>>
    /\ UNCHANGED <<call, startup, serverless>>

\* The requests each branch of the listener serves.
RequestsOf(branches) ==
    {rq \in Methods \X Paths : Listener(rq[1], rq[2]) \in branches}

McpPostRequests == RequestsOf({"mcp post"})
McpGetRequests == RequestsOf({"mcp get"})
McpDeleteRequests == RequestsOf({"mcp delete"})
SseRequests == RequestsOf({"sse"})
MessagesRequests == RequestsOf({"messages"})
StaticRequests == RequestsOf(StaticBranches)

\* The events that can occur now: none while a callback runs or after the
\* process has ended.
Now(events) == IF Ready THEN events ELSE {}

Next ==
    \/ \E rq \in Now(McpPostRequests), sessionId \in ClientIds :
          McpPostArrive(rq[1], rq[2], sessionId)
    \/ \E rq \in Now(McpPostRequests), sessionId \in ClientIds :
          McpPostArriveConcurrent(rq[1], rq[2], sessionId)
    \/ \E i \in Now(1..Len(pending)), body \in Bodies, outcome \in Outcomes :
          McpPostEnd(i, body, outcome)
    \/ \E rq \in Now(McpGetRequests), sessionId \in ClientIds :
          \E outcome \in OutcomesOf(Lookup(streamableTransports, sessionId)) :
             McpGet(rq[1], rq[2], sessionId, outcome)
    \/ \E rq \in Now(McpDeleteRequests), sessionId \in ClientIds :
          \E outcome \in OutcomesOf(Lookup(streamableTransports, sessionId)) :
             McpDelete(rq[1], rq[2], sessionId, outcome)
    \/ \E rq \in Now(SseRequests) : SseGet(rq[1], rq[2])
    \/ \E rq \in Now(MessagesRequests), sessionId \in ClientIds :
          MessagesPostArrive(rq[1], rq[2], sessionId)
    \/ \E i \in Now(1..Len(pending)), body \in Bodies, outcome \in Outcomes :
          MessagesPostEnd(i, body, outcome)
    \/ \E rq \in Now(StaticRequests) : StaticRequest(rq[1], rq[2])
    \/ \E t \in Now(1..Len(transports)) : StreamableSocketClose(t)
    \/ \E t \in Now(1..Len(transports)) : SseResClose(t)
    \/ Return

Spec == Init /\ [][Next]_vars

\* The scheduling of the event loop: a running callback returns, and a
\* request body that is being read is read to its end.
FairSpec ==
    /\ Spec
    /\ WF_vars(Return)
    /\ WF_vars(\E i \in 1..(MaxPending + 1), body \in Bodies, outcome \in Outcomes :
                  McpPostEnd(i, body, outcome) \/ MessagesPostEnd(i, body, outcome))

----------------------------------------------------------------------------
\* The tool handlers: the callbacks given to server.tool(...).  The
\* dispatcher of the MCP SDK has validated the argument bag against the
\* tool's schema before it calls the handler.  A handler runs up to its
\* await of the Stripe client, and goes on when that call settles.

\* An optional argument that is not a string: undefined, or a value.
None == << >>
Some(v) == <<v>>
Given(x) == x # None
ValueOf(x) == x[1]

\* A test that every string passes.
TruthyTextAlways(x) == TRUE

\* JavaScript truthiness of a string | undefined, of a number | undefined
\* and of a parsed metadata object | undefined.
TruthyText(x) == x \notin {Absent, ""}
TruthyNumber(x) == Given(x) /\ ValueOf(x) # 0
TruthyJson(x) == x # Absent

\* Argument values.
Ids == {Absent, "", "id_123"}
Texts == {Absent, "", "text"}
OptionalBooleans == {None, Some(TRUE), Some(FALSE)}
MetadataTexts == {Absent, "", "not json", "{\"category\":\"premium\"}"}
Arrays == {None, Some(<< >>), Some(<<"item">>)}

\* The tool response { success: false, error }.
Failure(error) ==
    [success |-> FALSE, error |-> error, key |-> "", result |-> None,
     message |-> << >>]

\* The tool response { success: true, <key>: result, message }.
Success(key, result, message) ==
    [success |-> TRUE, error |-> "", key |-> key, result |-> Some(result),
     message |-> message]

\* The handler returns a response without having called Stripe.
Returns(response) ==
    [stage |-> "returned", requests |-> << >>, response |-> response]

\* A handler that calls the Stripe client a second time with the same
\* request.
AwaitsRetried(api, id, params) ==
    [stage |-> "awaiting",
     requests |-> << [api |-> api, id |-> id, params |-> params],
                     [api |-> api, id |-> id, params |-> params] >>,
     response |-> Failure("")]

\* The handler calls the Stripe client and awaits the result.
Awaits(api, id, params) ==
    [stage |-> "awaiting",
     requests |-> << [api |-> api, id |-> id, params |-> params] >>,
     response |-> Failure("")]

\* params[field] = value, when the condition holds.
With(params, condition, field, value) ==
    IF condition THEN (field :> value) @@ params ELSE params

NoParams == << >>

\* A handler that reports every failure with the same text.
handleErrorGeneric(error) == Failure("An error occurred")

\* handleError: error instanceof Error ? error.message : String(error)
handleError(error) ==
    Failure(IF error.instanceofError THEN error.message ELSE error.value)

\* let parsedMetadata; if (metadata) { parsedMetadata = JSON.parse(metadata) }
parsedMetadata(metadata) ==
    IF TruthyText(metadata) THEN JSONparse(metadata) ELSE Absent

ProductActions == {"create", "list", "retrieve", "update", "archive"}

ProductsArgs ==
    [action : ProductActions, product_id : Ids, name : Texts,
     description : Texts, images : Arrays, metadata : MetadataTexts,
     active : OptionalBooleans]

\* stripe_products, up to the call of the Stripe client.
stripe_products(a) ==
    LET parsed == parsedMetadata(a.metadata)
        createParams ==
            With(With(With([name |-> a.name],
                TruthyText(a.description), "description", a.description),
                Given(a.images), "images", ValueOf(a.images)),
                TruthyJson(parsed), "metadata", parsed)
        updateParams ==
            With(With(With(With(With(NoParams,
                TruthyText(a.name), "name", a.name),
                a.description # Absent, "description", a.description),
                Given(a.images), "images", ValueOf(a.images)),
                TruthyJson(parsed), "metadata", parsed),
                Given(a.active), "active", ValueOf(a.active))
    IN  IF parsed = "throws"
        THEN Returns(Failure("Invalid metadata JSON format"))
        ELSE IF a.action = "create"
        THEN IF ~TruthyText(a.name)
             THEN Returns(Failure("Product name is required for create action"))
             ELSE Awaits("products.create", Absent, createParams)
        ELSE IF a.action = "list"
        THEN Awaits("products.list", Absent, [limit |-> 100])
        ELSE IF a.action = "retrieve"
        THEN IF ~TruthyText(a.product_id)
             THEN Returns(Failure("Product ID is required for retrieve action"))
             ELSE Awaits("products.retrieve", a.product_id, NoParams)
        ELSE IF a.action = "update"
        THEN IF ~TruthyText(a.product_id)
             THEN Returns(Failure("Product ID is required for update action"))
             ELSE Awaits("products.update", a.product_id, updateParams)
        ELSE IF ~TruthyText(a.product_id)
             THEN Returns(Failure("Product ID is required for archive action"))
             ELSE Awaits("products.update", a.product_id, [active |-> FALSE])

\* A handler that reports the id of the product in place of its name.
stripe_productsResolvedById(a, result) ==
    IF a.action = "list"
    THEN Success("products", result.data,
                 <<"Found ", Len(result.data), " product(s)">>)
    ELSE IF a.action = "retrieve"
    THEN Success("product", result, <<"Retrieved product: ", result.id>>)
    ELSE Success("product", result, <<"Successfully saved product: ", result.name>>)

\* stripe_products, after the Stripe client has returned result.
stripe_productsResolved(a, result) ==
    IF a.action = "create"
    THEN Success("product", result, <<"Successfully created product: ", result.name>>)
    ELSE IF a.action = "list"
    THEN Success("products", result.data,
                 <<"Found ", Len(result.data), " product(s)">>)
    ELSE IF a.action = "retrieve"
    THEN Success("product", result, <<"Retrieved product: ", result.name>>)
    ELSE IF a.action = "update"
    THEN Success("product", result, <<"Successfully updated product: ", result.name>>)
    ELSE Success("product", result, <<"Successfully archived product: ", result.name>>)

PriceActions == {"create", "list", "retrieve", "update", "archive"}

PricesArgs ==
    [action : PriceActions, price_id : Ids, product_id : Ids,
     unit_amount : {None, Some(0), Some(2000)}, currency : {Absent, "eur"},
     recurring_interval : {Absent, "month"},
     recurring_interval_count : {None, Some(3)},
     metadata : MetadataTexts, active : OptionalBooleans]

\* A parameter with a default value: the default replaces undefined only.
DefaultText(x, default) == IF x = Absent THEN default ELSE x
Default(x, default) == IF Given(x) THEN ValueOf(x) ELSE default

\* stripe_prices, up to the call of the Stripe client.
stripe_prices(a) ==
    LET parsed == parsedMetadata(a.metadata)
        currency == DefaultText(a.currency, "usd")
        recurring_interval_count == Default(a.recurring_interval_count, 1)
        createParams ==
            With(With([product |-> a.product_id,
                       unit_amount |-> ValueOf(a.unit_amount),
                       currency |-> currency],
                TruthyText(a.recurring_interval), "recurring",
                    [interval |-> a.recurring_interval,
                     interval_count |-> recurring_interval_count]),
                TruthyJson(parsed), "metadata", parsed)
        listParams ==
            With([limit |-> 100], TruthyText(a.product_id), "product", a.product_id)
        updateParams ==
            With(With(NoParams,
                TruthyJson(parsed), "metadata", parsed),
                Given(a.active), "active", ValueOf(a.active))
    IN  IF parsed = "throws"
        THEN Returns(Failure("Invalid metadata JSON format"))
        ELSE IF a.action = "create"
        THEN IF ~TruthyText(a.product_id) \/ ~TruthyNumber(a.unit_amount)
             THEN Returns(Failure(
                     "Product ID and unit_amount are required for create action"))
             ELSE Awaits("prices.create", Absent, createParams)
        ELSE IF a.action = "list"
        THEN Awaits("prices.list", Absent, listParams)
        ELSE IF a.action = "retrieve"
        THEN IF ~TruthyText(a.price_id)
             THEN Returns(Failure("Price ID is required for retrieve action"))
             ELSE Awaits("prices.retrieve", a.price_id, NoParams)
        ELSE IF a.action = "update"
        THEN IF ~TruthyText(a.price_id)
             THEN Returns(Failure("Price ID is required for update action"))
             ELSE Awaits("prices.update", a.price_id, updateParams)
        ELSE IF ~TruthyText(a.price_id)
             THEN Returns(Failure("Price ID is required for archive action"))
             ELSE Awaits("prices.update", a.price_id, [active |-> FALSE])

\* price.unit_amount ? (price.unit_amount / 100) : 'custom', and the
\* currency in upper case.
Amount(price) ==
    <<IF price.unit_amount # 0 THEN price.unit_amount \div 100 ELSE -1,
      IF price.currency = "usd" THEN "USD" ELSE "EUR">>

\* stripe_prices, after the Stripe client has returned result.
stripe_pricesResolved(a, result) ==
    IF a.action = "create"
    THEN Success("price", result,
                 <<"Successfully created price: ", Amount(result), result.recurring>>)
    ELSE IF a.action = "list"
    THEN Success("prices", result.data, <<"Found ", Len(result.data), " price(s)">>)
    ELSE IF a.action = "retrieve"
    THEN Success("price", result, <<"Retrieved price: ", Amount(result)>>)
    ELSE IF a.action = "update"
    THEN Success("price", result, <<"Successfully updated price: ", Amount(result)>>)
    ELSE Success("price", result, <<"Successfully archived price: ", Amount(result)>>)

WebhookActions == {"create", "list", "retrieve", "update", "delete"}

Urls == {Absent, "", "http://example.com/hook", "https://example.com/hook"}

WebhooksArgs ==
    [action : WebhookActions, webhook_id : Ids, url : Urls,
     enabled_events : Arrays, description : Texts, enabled : OptionalBooleans]

\* A check that accepts any scheme.
startsWithAny(url, prefix) == TRUE

\* url.startsWith(prefix), for the urls and the prefix of the model.
startsWith(url, prefix) ==
    /\ prefix = "https://"
    /\ url = "https://example.com/hook"

\* stripe_webhooks, up to the call of the Stripe client.
stripe_webhooks(a) ==
    LET createParams ==
            With([url |-> a.url, enabled_events |-> ValueOf(a.enabled_events)],
                TruthyText(a.description), "description", a.description)
        updateParams ==
            With(With(With(With(NoParams,
                TruthyText(a.url), "url", a.url),
                Given(a.enabled_events), "enabled_events", ValueOf(a.enabled_events)),
                a.description # Absent, "description", a.description),
                Given(a.enabled), "disabled", ~ValueOf(a.enabled))
    IN  IF a.action = "create"
        THEN IF ~TruthyText(a.url) \/ ~Given(a.enabled_events)
             THEN Returns(Failure(
                     "URL and enabled_events are required for create action"))
             ELSE IF ~startsWith(a.url, "https://")
             THEN Returns(Failure("Webhook URL must start with https://"))
             ELSE Awaits("webhookEndpoints.create", Absent, createParams)
        ELSE IF a.action = "list"
        THEN Awaits("webhookEndpoints.list", Absent, [limit |-> 100])
        ELSE IF a.action = "retrieve"
        THEN IF ~TruthyText(a.webhook_id)
             THEN Returns(Failure("Webhook ID is required for retrieve action"))
             ELSE Awaits("webhookEndpoints.retrieve", a.webhook_id, NoParams)
        ELSE IF a.action = "update"
        THEN IF ~TruthyText(a.webhook_id)
             THEN Returns(Failure("Webhook ID is required for update action"))
             ELSE Awaits("webhookEndpoints.update", a.webhook_id, updateParams)
        ELSE IF ~TruthyText(a.webhook_id)
             THEN Returns(Failure("Webhook ID is required for delete action"))
             ELSE Awaits("webhookEndpoints.del", a.webhook_id, NoParams)

\* stripe_webhooks, after the Stripe client has returned result.
stripe_webhooksResolved(a, result) ==
    IF a.action = "create"
    THEN Success("webhook", result,
                 <<"Successfully created webhook endpoint: ", result.url>>)
    ELSE IF a.action = "list"
    THEN Success("webhooks", result.data,
                 <<"Found ", Len(result.data), " webhook endpoint(s)">>)
    ELSE IF a.action = "retrieve"
    THEN Success("webhook", result, <<"Retrieved webhook endpoint: ", result.url>>)
    ELSE IF a.action = "update"
    THEN Success("webhook", result,
                 <<"Successfully updated webhook endpoint: ", result.url>>)
    ELSE Success("webhook", result, <<"Successfully deleted webhook endpoint">>)

PortalActions == {"create", "list", "retrieve", "update"}

\* The portal features that are switched on or off, each with the value it
\* gets when the caller leaves it out.
FeatureDefaults ==
    [invoice_history |-> TRUE, payment_method_update |-> TRUE,
     subscription_cancel |-> TRUE, subscription_pause |-> FALSE,
     subscription_update |-> TRUE]

PortalArgs ==
    [action : PortalActions, configuration_id : Ids,
     business_profile_headline : {Absent, "text"},
     business_profile_privacy_policy_url : {Absent, "https://example.com/privacy"},
     business_profile_terms_of_service_url : {Absent, "https://example.com/terms"},
     default_return_url : {Absent, "https://example.com/return"},
     features_customer_update_allowed_updates : {None, Some(<<"email">>)},
     features_invoice_history_enabled : {None, Some(FALSE)},
     features_payment_method_update_enabled : {None, Some(FALSE)},
     features_subscription_cancel_enabled : {None, Some(FALSE)},
     features_subscription_pause_enabled : {None, Some(TRUE)},
     features_subscription_update_enabled : {None, Some(FALSE)}]

\* stripe_portal_config, up to the call of the Stripe client.
stripe_portal_config(a) ==
    LET features ==
            [invoice_history |->
                [enabled |-> Default(a.features_invoice_history_enabled,
                                     FeatureDefaults.invoice_history)],
             payment_method_update |->
                [enabled |-> Default(a.features_payment_method_update_enabled,
                                     FeatureDefaults.payment_method_update)],
             subscription_cancel |->
                [enabled |-> Default(a.features_subscription_cancel_enabled,
                                     FeatureDefaults.subscription_cancel)],
             subscription_pause |->
                [enabled |-> Default(a.features_subscription_pause_enabled,
                                     FeatureDefaults.subscription_pause)],
             subscription_update |->
                [enabled |-> Default(a.features_subscription_update_enabled,
                                     FeatureDefaults.subscription_update)]]
        allFeatures ==
            With(features, Given(a.features_customer_update_allowed_updates),
                "customer_update",
                [enabled |-> TRUE,
                 allowed_updates |->
                    ValueOf(a.features_customer_update_allowed_updates)])
        business_profile ==
            With(With(With(NoParams,
                TruthyText(a.business_profile_headline),
                    "headline", a.business_profile_headline),
                TruthyText(a.business_profile_privacy_policy_url),
                    "privacy_policy_url", a.business_profile_privacy_policy_url),
                TruthyText(a.business_profile_terms_of_service_url),
                    "terms_of_service_url", a.business_profile_terms_of_service_url)
        params ==
            With(With([features |-> allFeatures],
                \/ TruthyText(a.business_profile_headline)
                \/ TruthyText(a.business_profile_privacy_policy_url)
                \/ TruthyText(a.business_profile_terms_of_service_url),
                    "business_profile", business_profile),
                TruthyText(a.default_return_url),
                    "default_return_url", a.default_return_url)
    IN  IF a.action = "create"
        THEN Awaits("billingPortal.configurations.create", Absent, params)
        ELSE IF a.action = "list"
        THEN Awaits("billingPortal.configurations.list", Absent, [limit |-> 100])
        ELSE IF a.action = "retrieve"
        THEN IF ~TruthyText(a.configuration_id)
             THEN Returns(Failure("Configuration ID is required for retrieve action"))
             ELSE Awaits("billingPortal.configurations.retrieve",
                         a.configuration_id, NoParams)
        ELSE IF ~TruthyText(a.configuration_id)
             THEN Returns(Failure("Configuration ID is required for update action"))
             ELSE Awaits("billingPortal.configurations.update",
                         a.configuration_id, params)

\* stripe_portal_config, after the Stripe client has returned result.
stripe_portal_configResolved(a, result) ==
    IF a.action = "create"
    THEN Success("configuration", result,
                 <<"Successfully created portal configuration: ", result.id>>)
    ELSE IF a.action = "list"
    THEN Success("configurations", result.data,
                 <<"Found ", Len(result.data), " portal configuration(s)">>)
    ELSE IF a.action = "retrieve"
    THEN Success("configuration", result,
                 <<"Retrieved portal configuration: ", result.id>>)
    ELSE Success("configuration", result,
                 <<"Successfully updated portal configuration: ", result.id>>)

\* stripe_connect: the handler returns a text and calls nothing.
ConnectArgs ==
    [purpose : {"checkout"},
     features : {<< >>, <<"payments">>, <<"payments", "webhooks">>}]

stripe_connect(a) ==
    Returns([text |-> <<"Stripe connection requested for: ", a.purpose,
                        "Features needed: ", a.features>>])

\* stripe_query: the resources, their list operations, and the arguments.
QueryResources ==
    {"events", "charges", "payment_intents", "customers", "subscriptions",
     "invoices", "products", "prices"}

QueryApi(resource) ==
    IF resource = "events" THEN "events.list"
    ELSE IF resource = "charges" THEN "charges.list"
    ELSE IF resource = "payment_intents" THEN "paymentIntents.list"
    ELSE IF resource = "customers" THEN "customers.list"
    ELSE IF resource = "subscriptions" THEN "subscriptions.list"
    ELSE IF resource = "invoices" THEN "invoices.list"
    ELSE IF resource = "products" THEN "products.list"
    ELSE "prices.list"

FilterArgs ==
    [created : {None, Some([gte |-> 1700000000])},
     status : {Absent, "active"},
     type : {Absent, "invoice.payment_failed"},
     customer : {Absent, "cus_123"},
     subscription : {Absent, "sub_123"},
     invoice : {Absent, "in_123"},
     payment_intent : {Absent, "pi_123"},
     amount : {None, Some([gte |-> 100])}]

NoFilters ==
    [created |-> None, status |-> Absent, type |-> Absent,
     customer |-> Absent, subscription |-> Absent, invoice |-> Absent,
     payment_intent |-> Absent, amount |-> None]

Limits == {None} \cup {Some(n) : n \in {-5, -1, 0, 1, 2, 10, 99, 100, 101, 250}}

QueryArgs ==
    [resource : QueryResources,
     filters : {None} \cup {Some(f) : f \in FilterArgs},
     limit : Limits,
     expand : {None, Some(<<"customer">>)}]

Min(x, y) == IF x < y THEN x ELSE y
Max(x, y) == IF x > y THEN x ELSE y

\* A limit that is passed on as it is.
validLimitUnchecked(limit) == Default(limit, 10)

\* limit = 10; const validLimit = Math.min(Math.max(limit || 10, 1), 100)
validLimit(limit) ==
    LET given == Default(limit, 10)
        orTen == IF given # 0 THEN given ELSE 10
    IN  Min(Max(orTen, 1), 100)

\* stripe_query, up to the call of the Stripe client.
stripe_query(a) ==
    LET filters == Default(a.filters, NoFilters)
        params ==
            With(With(With(With(With(With(With(With(With(
                [limit |-> validLimit(a.limit)],
                Given(filters.created), "created", ValueOf(filters.created)),
                TruthyText(filters.status), "status", filters.status),
                TruthyText(filters.type), "type", filters.type),
                TruthyText(filters.customer), "customer", filters.customer),
                TruthyText(filters.subscription), "subscription", filters.subscription),
                TruthyText(filters.invoice), "invoice", filters.invoice),
                TruthyText(filters.payment_intent), "payment_intent", filters.payment_intent),
                Given(filters.amount), "amount", ValueOf(filters.amount)),
                Given(a.expand), "expand", ValueOf(a.expand))
    IN  Awaits(QueryApi(a.resource), Absent, params)

\* stripe_query, after the Stripe client has returned result.
stripe_queryResolved(a, result) ==
    [success |-> TRUE, error |-> "", key |-> "data",
     result |-> Some(result.data), resource |-> a.resource,
     count |-> Len(result.data), has_more |-> result.has_more,
     message |-> <<"Found ", Len(result.data), " ", a.resource, " record(s)",
                   IF result.has_more THEN " (more available)" ELSE "">>]

\* What the Stripe client can return for a call: one object of the
\* resource, or a page of them for a list.
StripeObject(api) ==
    IF api \in {"products.create", "products.retrieve", "products.update"}
    THEN [id |-> "prod_123", name |-> "Pro plan"]
    ELSE IF api \in {"prices.create", "prices.retrieve", "prices.update"}
    THEN [id |-> "price_123", unit_amount |-> 2000, currency |-> "usd",
          recurring |-> "month"]
    ELSE IF api \in {"webhookEndpoints.create", "webhookEndpoints.retrieve",
                     "webhookEndpoints.update", "webhookEndpoints.del"}
    THEN [id |-> "we_123", url |-> "https://example.com/hook"]
    ELSE [id |-> "bpc_123"]

ListApis ==
    {"products.list", "prices.list", "webhookEndpoints.list",
     "billingPortal.configurations.list"}
    \cup {QueryApi(resource) : resource \in QueryResources}

StripeResults(api) ==
    IF api \in ListApis
    THEN {[data |-> << >>, has_more |-> FALSE],
          [data |-> <<[id |-> "id_123"]>>, has_more |-> TRUE]}
    ELSE IF api = "products.retrieve"
    THEN {StripeObject(api),
          [id |-> "prod_456", name |-> "Basic plan", active |-> FALSE]}
    ELSE {StripeObject(api)}

\* What a failed call of the Stripe client throws: an Error with a message,
\* or a value that is no Error.
Errors ==
    {[instanceofError |-> TRUE, message |-> "No such product", value |-> ""],
     [instanceofError |-> FALSE, message |-> "", value |-> "socket hang up"]}

\* A catch block that passes the error on to the dispatcher.
CatchRethrows(error) == [stage |-> "thrown", response |-> Failure("")]

\* catch (error) { return { content: [{ type: "text", text: JSON.stringify(handleError(error)) }] } }
Catch(error) == [stage |-> "returned", response |-> handleError(error)]

Tools ==
    {"stripe_connect", "stripe_products", "stripe_prices", "stripe_webhooks",
     "stripe_portal_config", "stripe_query"}

Resolved(tool, a, result) ==
    IF tool = "stripe_products" THEN stripe_productsResolved(a, result)
    ELSE IF tool = "stripe_prices" THEN stripe_pricesResolved(a, result)
    ELSE IF tool = "stripe_webhooks" THEN stripe_webhooksResolved(a, result)
    ELSE IF tool = "stripe_query" THEN stripe_queryResolved(a, result)
    ELSE stripe_portal_configResolved(a, result)

routerVars ==
    <<transports, streamableTransports, sseTransports, issued, pending,
      crashed, last>>

\* The call of a tool whose handler has run up to its first await or to
\* its return.
Invoked(tool, a, h) ==
    [stage |-> h.stage, tool |-> tool, args |-> a,
     requests |-> h.requests, response |-> h.response,
     outcome |-> [kind |-> "none"]]

\* The dispatcher calls the handler of a tool.
ProductsCall(a) ==
    /\ call.stage = "none"
    /\ call' = Invoked("stripe_products", a, stripe_products(a))
    /\ UNCHANGED <<routerVars, startup, serverless>>

PricesCall(a) ==
    /\ call.stage = "none"
    /\ call' = Invoked("stripe_prices", a, stripe_prices(a))
    /\ UNCHANGED <<routerVars, startup, serverless>>

WebhooksCall(a) ==
    /\ call.stage = "none"
    /\ call' = Invoked("stripe_webhooks", a, stripe_webhooks(a))
    /\ UNCHANGED <<routerVars, startup, serverless>>

PortalConfigCall(a) ==
    /\ call.stage = "none"
    /\ call' = Invoked("stripe_portal_config", a, stripe_portal_config(a))
    /\ UNCHANGED <<routerVars, startup, serverless>>

ConnectCall(a) ==
    /\ call.stage = "none"
    /\ call' = Invoked("stripe_connect", a, stripe_connect(a))
    /\ UNCHANGED <<routerVars, startup, serverless>>

QueryCall(a) ==
    /\ call.stage = "none"
    /\ call' = Invoked("stripe_query", a, stripe_query(a))
    /\ UNCHANGED <<routerVars, startup, serverless>>

\* The awaited Stripe call resolves: the handler builds its response.
StripeResolves(result) ==
    /\ call.stage = "awaiting"
    /\ call' = [call EXCEPT !.stage = "returned",
                            !.response = Resolved(call.tool, call.args, result),
                            !.outcome = [kind |-> "resolved", result |-> result]]
    /\ UNCHANGED <<routerVars, startup, serverless>>

\* The awaited Stripe call rejects: the catch block of the handler runs.
StripeRejects(error) ==
    /\ call.stage = "awaiting"
    /\ call' = [call EXCEPT !.stage = Catch(error).stage,
                            !.response = Catch(error).response,
                            !.outcome = [kind |-> "rejected", error |-> error]]
    /\ UNCHANGED <<routerVars, startup, serverless>>

\* The dispatcher has taken the response (or the exception) of the handler.
ToolReturn ==
    /\ call.stage \in {"returned", "thrown"}
    /\ call' = NoCall
    /\ UNCHANGED <<routerVars, startup, serverless>>

\* The argument bags the dispatcher can call a handler with now: none while
\* a call is running.
CallableWith(bags) == IF call.stage = "none" THEN bags ELSE {}

\* What the awaited call can resolve to, and what it can throw.
AwaitedResults ==
    IF call.stage = "awaiting" THEN StripeResults(call.requests[1].api) ELSE {}

AwaitedErrors == IF call.stage = "awaiting" THEN Errors ELSE {}

ToolNext ==
    \/ \E a \in CallableWith(ProductsArgs) : ProductsCall(a)
    \/ \E a \in CallableWith(PricesArgs) : PricesCall(a)
    \/ \E a \in CallableWith(WebhooksArgs) : WebhooksCall(a)
    \/ \E a \in CallableWith(PortalArgs) : PortalConfigCall(a)
    \/ \E a \in CallableWith(ConnectArgs) : ConnectCall(a)
    \/ \E a \in CallableWith(QueryArgs) : QueryCall(a)
    \/ \E result \in AwaitedResults : StripeResolves(result)
    \/ \E error \in AwaitedErrors : StripeRejects(error)
    \/ ToolReturn

ToolSpec == Init /\ [][ToolNext]_vars

----------------------------------------------------------------------------
\* The single-endpoint wrappers: executeFunction of create_webhook_endpoint,
\* create_portal_configuration and delete_coupon.  Each builds a URL and a
\* form, calls fetch, and resolves to the decoded response or to an error
\* envelope; what runs before its try block rejects the promise of the
\* async function when it throws.

\* String(value) as URLSearchParams.append and template literals apply it.
TextOf(x) == IF x = Absent THEN "undefined" ELSE x
BooleanText(x) ==
    IF x = None THEN "undefined" ELSE IF ValueOf(x) THEN "true" ELSE "false"

\* array[i] read as a form value: undefined past the end of the array.
ItemText(array, i) == IF i <= Len(array) THEN array[i] ELSE "undefined"

\* The async function throws before its try block: its promise rejects.
Throws(error) ==
    [stage |-> "rejected", requests |-> << >>, response |-> [thrown |-> error]]

\* The function calls fetch and awaits the response.
Fetches(method, url, form) ==
    [stage |-> "awaiting",
     requests |-> << [method |-> method, url |-> url, form |-> form] >>,
     response |-> << >>]

WebhookEndpointArgs ==
    [enabled_events : Arrays, url : {Absent, "https://example.com/hook"},
     api_version : {Absent, "2024-04-10"}, connect : OptionalBooleans,
     expand : {None, Some(<<"item">>)}]

create_webhook_endpoint(a) ==
    IF a.enabled_events = None
    THEN Throws("TypeError")
    ELSE Fetches("POST", <<"https://api.stripe.com/v1/webhook_endpoints">>,
            With(With(
                [enabled_events |-> ValueOf(a.enabled_events),
                 url |-> TextOf(a.url),
                 connect |-> BooleanText(Some(Default(a.connect, FALSE)))],
                TruthyText(a.api_version), "api_version", a.api_version),
                Given(a.expand), "expand", ValueOf(a.expand)))

\* The products of a portal configuration: each with its prices, or without.
PortalProduct == [product |-> "prod_123", prices |-> Some(<<"price_1", "price_2">>)]
PortalProductUnpriced == [product |-> "prod_456", prices |-> None]

PortalConfigurationArgs ==
    [business_profile_headline : {Absent, "text"},
     business_profile_privacy_policy_url : {"https://example.com/privacy"},
     business_profile_terms_of_service_url : {"https://example.com/terms"},
     features_customer_update_enabled : {Some(TRUE)},
     features_customer_update_allowed_updates : {None, Some(<<"email">>)},
     features_invoice_history_enabled : {None, Some(TRUE)},
     features_payment_method_update_enabled : {Some(TRUE)},
     features_subscription_cancel_enabled : {Some(FALSE)},
     features_subscription_cancel_cancellation_reason_enabled : {Some(FALSE)},
     features_subscription_cancel_cancellation_reason_options :
        {None, Some(<<"too_expensive", "other">>)},
     features_subscription_cancel_mode : {"at_period_end"},
     features_subscription_cancel_proration_behavior : {"none"},
     features_subscription_update_default_allowed_updates :
        {None, Some(<<"price">>)},
     features_subscription_update_enabled : {Some(TRUE)},
     features_subscription_update_products :
        {None, Some(<< >>), Some(<<PortalProduct>>),
         Some(<<PortalProduct, PortalProduct>>),
         Some(<<PortalProduct, PortalProductUnpriced>>)},
     features_subscription_update_proration_behavior : {"none"}]

create_portal_configuration(args) ==
    LET allowed == args.features_customer_update_allowed_updates
        options == args.features_subscription_cancel_cancellation_reason_options
        updates == args.features_subscription_update_default_allowed_updates
        products == args.features_subscription_update_products
        priced(i) == /\ Len(ValueOf(products)) >= i
                     /\ Given(ValueOf(products)[i].prices)
        prices(i) == ValueOf(ValueOf(products)[i].prices)
    IN  IF \/ allowed = None \/ options = None \/ updates = None
           \/ products = None
           \/ ~priced(1) \/ ~priced(2)
        THEN Throws("TypeError")
        ELSE Fetches("POST",
                <<"https://api.stripe.com/", "/v1/billing_portal/configurations">>,
                [business_profile_headline |-> TextOf(args.business_profile_headline),
                 business_profile_privacy_policy_url |->
                    TextOf(args.business_profile_privacy_policy_url),
                 business_profile_terms_of_service_url |->
                    TextOf(args.business_profile_terms_of_service_url),
                 customer_update_enabled |->
                    BooleanText(args.features_customer_update_enabled),
                 customer_update_allowed_updates |->
                    <<ItemText(ValueOf(allowed), 1), ItemText(ValueOf(allowed), 2)>>,
                 invoice_history_enabled |->
                    BooleanText(args.features_invoice_history_enabled),
                 payment_method_update_enabled |->
                    BooleanText(args.features_payment_method_update_enabled),
                 subscription_cancel_enabled |->
                    BooleanText(args.features_subscription_cancel_enabled),
                 cancellation_reason_enabled |->
                    BooleanText(args.features_subscription_cancel_cancellation_reason_enabled),
                 cancellation_reason_options |->
                    <<ItemText(ValueOf(options), 1), ItemText(ValueOf(options), 2)>>,
                 subscription_cancel_mode |->
                    TextOf(args.features_subscription_cancel_mode),
                 subscription_cancel_proration_behavior |->
                    TextOf(args.features_subscription_cancel_proration_behavior),
                 default_allowed_updates |->
                    <<ItemText(ValueOf(updates), 1), ItemText(ValueOf(updates), 2)>>,
                 subscription_update_enabled |->
                    BooleanText(args.features_subscription_update_enabled),
                 products |->
                    <<[prices |-> <<ItemText(prices(1), 1), ItemText(prices(1), 2)>>,
                       product |-> TextOf(ValueOf(products)[1].product)],
                      [prices |-> <<ItemText(prices(2), 1), ItemText(prices(2), 2)>>,
                       product |-> TextOf(ValueOf(products)[2].product)]>>,
                 subscription_update_proration_behavior |->
                    TextOf(args.features_subscription_update_proration_behavior)])

DeleteCouponArgs == [coupon : {Absent, "", "SUMMER25"}]

delete_coupon(a) ==
    Fetches("DELETE", <<"https://api.stripe.com/", "v1/coupons/", TextOf(a.coupon)>>,
            NoParams)

\* How the fetch of a wrapper settles: a response with a status that is ok
\* or not and a body that is JSON or not, or a rejection.
FetchOutcomes ==
    {[kind |-> "response", ok |-> ok, body |-> body] :
        ok \in BOOLEAN, body \in {"{\"category\":\"premium\"}", "not json"}}
    \cup {[kind |-> "rejects", ok |-> FALSE, body |-> ""]}

\* The text of the envelope each wrapper returns from its catch block.
ErrorEnvelope(tool) ==
    [error |->
        IF tool = "create_webhook_endpoint"
        THEN "An error occurred while creating the webhook endpoint."
        ELSE IF tool = "create_portal_configuration"
        THEN "An error occurred while creating the portal configuration."
        ELSE "An error occurred while deleting the coupon."]

\* try { ... if (!response.ok) throw ...; return await response.json() }
\* catch (error) { return { error: '...' } }
Settled(tool, outcome) ==
    IF outcome.kind = "rejects" THEN ErrorEnvelope(tool)
    ELSE IF JSONparse(outcome.body) = "throws" THEN ErrorEnvelope(tool)
    ELSE IF ~outcome.ok THEN ErrorEnvelope(tool)
    ELSE JSONparse(outcome.body)

WebhookEndpointCall(a) ==
    /\ call.stage = "none"
    /\ call' = Invoked("create_webhook_endpoint", a, create_webhook_endpoint(a))
    /\ UNCHANGED <<routerVars, startup, serverless>>

PortalConfigurationCall(a) ==
    /\ call.stage = "none"
    /\ call' = Invoked("create_portal_configuration", a,
                       create_portal_configuration(a))
    /\ UNCHANGED <<routerVars, startup, serverless>>

DeleteCouponCall(a) ==
    /\ call.stage = "none"
    /\ call' = Invoked("delete_coupon", a, delete_coupon(a))
    /\ UNCHANGED <<routerVars, startup, serverless>>

\* The fetch settles and the promise of the wrapper resolves.
FetchSettles(outcome) ==
    /\ call.stage = "awaiting"
    /\ call' = [call EXCEPT !.stage = "resolved",
                            !.response = Settled(call.tool, outcome),
                            !.outcome = outcome]
    /\ UNCHANGED <<routerVars, startup, serverless>>

\* The caller has taken the value or the rejection of the promise.
WrapperReturn ==
    /\ call.stage \in {"resolved", "rejected"}
    /\ call' = NoCall
    /\ UNCHANGED <<routerVars, startup, serverless>>

AwaitedOutcomes == IF call.stage = "awaiting" THEN FetchOutcomes ELSE {}

WrapperNext ==
    \/ \E a \in CallableWith(WebhookEndpointArgs) : WebhookEndpointCall(a)
    \/ \E a \in CallableWith(PortalConfigurationArgs) : PortalConfigurationCall(a)
    \/ \E a \in CallableWith(DeleteCouponArgs) : DeleteCouponCall(a)
    \/ \E outcome \in AwaitedOutcomes : FetchSettles(outcome)
    \/ WrapperReturn

WrapperSpec == Init /\ [][WrapperNext]_vars

----------------------------------------------------------------------------
\* Properties

----------------------------------------------------------------------------
\* The start of the process: parseArgs, the configuration read at module
\* level, the check of the secret key, and main().

\* A command-line argument: its text, and the pieces text.split('=') yields.
Arg(text, pieces) == [text |-> text, pieces |-> pieces]

Args ==
    {Arg("--api-key=sk_cli", <<"--api-key", "sk_cli">>),
     Arg("--api-key=", <<"--api-key", "">>),
     Arg("--api-key", <<"--api-key">>),
     Arg("sk_cli", <<"sk_cli">>),
     Arg("--transport=http", <<"--transport", "http">>),
     Arg("--port=8080", <<"--port", "8080">>)}

\* process.argv.slice(2)
ArgLists == UNION {[1..n -> Args] : n \in 0..MaxArgs}

\* process.env
Environments ==
    [STRIPE_SECRET_KEY : {Absent, "", "sk_env"},
     TRANSPORT_TYPE : {Absent, "http"},
     PORT : {Absent, "8080"}]

\* The flags parseArgs knows and the field of config each one sets.
Flags ==
    {"--api-key", "--publishable-key", "--webhook-secret", "--tools",
     "--transport", "--port"}

ConfigKey(flag) ==
    IF flag = "--api-key" THEN "apiKey"
    ELSE IF flag = "--publishable-key" THEN "publishableKey"
    ELSE IF flag = "--webhook-secret" THEN "webhookSecret"
    ELSE IF flag = "--tools" THEN "tools"
    ELSE IF flag = "--transport" THEN "transport"
    ELSE "port"

\* parseInt(text, 10); 0 stands for NaN, which is falsy as well.
parseInt(text) ==
    IF text = "8080" THEN 8080 ELSE IF text = "3000" THEN 3000 ELSE 0

\* const config = {}
EmptyConfig ==
    [apiKey |-> Absent, publishableKey |-> Absent, webhookSecret |-> Absent,
     tools |-> Absent, transport |-> Absent, port |-> None]

\* config[key] = value, the port through parseInt.
Configured(config, flag, value) ==
    IF flag = "--port"
    THEN [config EXCEPT !.port = Some(parseInt(value))]
    ELSE [config EXCEPT ![ConfigKey(flag)] = value]

\* arg.startsWith(flag + '=')
StartsWithFlag(arg) == Len(arg.pieces) >= 2 /\ arg.pieces[1] \in Flags

\* The for loop of parseArgs, from index i on.
RECURSIVE parseArgsFrom(_, _, _)
parseArgsFrom(args, i, config) ==
    IF i > Len(args) THEN config
    ELSE IF StartsWithFlag(args[i])
    THEN parseArgsFrom(args, i + 1,
            Configured(config, args[i].pieces[1], args[i].pieces[2]))
    ELSE IF args[i].text \in Flags /\ i + 1 <= Len(args)
    THEN parseArgsFrom(args, i + 2,
            Configured(config, args[i].text, args[i + 1].text))
    ELSE parseArgsFrom(args, i + 1, config)

parseArgs(args) == parseArgsFrom(args, 1, EmptyConfig)

\* a || b on strings
Or(a, b) == IF TruthyText(a) THEN a ELSE b

\* A configuration that falls back on a built-in key.
STRIPE_SECRET_KEYWithDefault(cliArgs, env) ==
    Or(Or(cliArgs.apiKey, env.STRIPE_SECRET_KEY), "sk_test_default")

\* const STRIPE_SECRET_KEY = cliArgs.apiKey || process.env.STRIPE_SECRET_KEY
STRIPE_SECRET_KEY(cliArgs, env) == Or(cliArgs.apiKey, env.STRIPE_SECRET_KEY)

\* const TRANSPORT_TYPE = cliArgs.transport || process.env.TRANSPORT_TYPE || 'stdio'
TRANSPORT_TYPE(cliArgs, env) ==
    Or(Or(cliArgs.transport, env.TRANSPORT_TYPE), "stdio")

DefaultPort == 3000

\* const PORT = cliArgs.port || parseInt(process.env.PORT || '3000', 10)
PORT(cliArgs, env) ==
    IF TruthyNumber(cliArgs.port) THEN ValueOf(cliArgs.port)
    ELSE IF TruthyText(env.PORT) THEN parseInt(env.PORT)
    ELSE DefaultPort

\* The process is started with these arguments and this environment.
Launch(argv, env) ==
    /\ startup.stage = "not started"
    /\ startup' = [stage |-> "launched", argv |-> argv, env |-> env,
                   stderr |-> << >>, exitCode |-> None, stripe |-> Absent,
                   mcpServer |-> FALSE, transport |-> "none",
                   listening |-> None]
    /\ UNCHANGED <<routerVars, call, serverless>>

\* The module body runs: configuration, the check of the key, the Stripe
\* client, the MCP server and its tools.
ModuleBody ==
    /\ startup.stage = "launched"
    /\ LET cliArgs == parseArgs(startup.argv)
           key == STRIPE_SECRET_KEY(cliArgs, startup.env)
       IN  IF ~TruthyText(key)
           THEN startup' =
                  [startup EXCEPT
                     !.stage = "exited",
                     !.stderr = Append(@, "Stripe API key is required. Provide it via --api-key argument or STRIPE_SECRET_KEY environment variable"),
                     !.exitCode = Some(1)]
           ELSE startup' =
                  [startup EXCEPT !.stage = "initialized", !.stripe = key,
                                  !.mcpServer = TRUE]
    /\ UNCHANGED <<routerVars, call, serverless>>

\* main(): the HTTP listener, or the stdio transport, whose connect can
\* fail; main().catch reports the failure and exits.
Main(connects) ==
    /\ startup.stage = "initialized"
    /\ LET cliArgs == parseArgs(startup.argv)
       IN  IF TRANSPORT_TYPE(cliArgs, startup.env) = "http"
           THEN startup' =
                  [startup EXCEPT !.stage = "running", !.transport = "http",
                                  !.listening = Some(PORT(cliArgs, startup.env))]
           ELSE IF connects
           THEN startup' =
                  [startup EXCEPT
                     !.stage = "running", !.transport = "stdio",
                     !.stderr = Append(@, "Stripe MCP Server running on stdio")]
           ELSE startup' =
                  [startup EXCEPT
                     !.stage = "exited", !.transport = "stdio",
                     !.stderr = Append(@, "Failed to start server:"),
                     !.exitCode = Some(1)]
    /\ UNCHANGED <<routerVars, call, serverless>>

\* The launches to consider: none once the process has been started.
LaunchesNow(launches) == IF startup.stage = "not started" THEN launches ELSE {}

StartupNext ==
    \/ \E argv \in LaunchesNow(ArgLists), env \in Environments : Launch(argv, env)
    \/ ModuleBody
    \/ \E connects \in BOOLEAN : Main(connects)

StartupSpec == Init /\ [][StartupNext]_vars

----------------------------------------------------------------------------
\* The serverless handler: export default async function handler(req, res).
\* A POST gets a server from createServer() and a transport of its own; the
\* 'close' callback of its response closes both.

ServerlessMethods == {"OPTIONS", "GET", "POST", "PUT"}

\* A transport option that generates an identifier for each transport.
sessionIdGeneratorRandom(n) == randomUUID(n)

\* sessionIdGenerator: undefined: the transport has no session identifier.
sessionIdGenerator(n) == Absent

\* createServer() and new StreamableHTTPServerTransport({ sessionIdGenerator })
\* for the request at place i.
NewPair(i, n) ==
    [createdFor |-> i, sessionId |-> sessionIdGenerator(n),
     serverClosed |-> FALSE, transportClosed |-> FALSE]

\* res.on('close', () => { transport.close(); server.close() })
onresponseclose(pair) ==
    [pair EXCEPT !.transportClosed = TRUE, !.serverClosed = TRUE]

\* How the awaits of a POST end: the transport answers the request,
\* server.connect or transport.handleRequest rejects before the response
\* has headers, or handleRequest rejects after it has sent them.
ServerlessOutcomes == {"handled", "rejects", "rejects after headers"}

MethodNotAllowedCode == -32000
InternalErrorCode == -32603

\* What the handler itself writes for a method: the status, and the error
\* code of the body.
ServerlessAnswer(method) ==
    IF method = "OPTIONS" THEN [status |-> 200, code |-> 0]
    ELSE IF method = "GET" THEN [status |-> 200, code |-> 0]
    ELSE IF method = "POST" THEN [status |-> 0, code |-> 0]
    ELSE [status |-> 405, code |-> MethodNotAllowedCode]

\* A request arrives at the handler.
ServerlessRequest(method) ==
    /\ Len(serverless.requests) < MaxRequests
    /\ LET i == Len(serverless.requests) + 1
           n == Len(serverless.pairs) + 1
           answer == ServerlessAnswer(method)
       IN  serverless' =
             [requests |->
                Append(serverless.requests,
                    [method |-> method,
                     pair |-> IF method = "POST" THEN n ELSE 0,
                     status |-> answer.status, code |-> answer.code,
                     settled |-> method # "POST", closed |-> FALSE]),
              pairs |->
                IF method = "POST"
                THEN Append(serverless.pairs, NewPair(i, n))
                ELSE serverless.pairs]
    /\ UNCHANGED <<routerVars, call, startup>>

\* The awaits of the POST at place i end.
ServerlessSettles(i, outcome) ==
    /\ i \in 1..Len(serverless.requests)
    /\ ~serverless.requests[i].settled
    /\ serverless' =
         [serverless EXCEPT
            !.requests[i].settled = TRUE,
            !.requests[i].status = IF outcome = "rejects" THEN 500 ELSE 200,
            !.requests[i].code =
                IF outcome = "rejects" THEN InternalErrorCode ELSE 0]
    /\ UNCHANGED <<routerVars, call, startup>>

\* The response of the request at place i closes.
ServerlessResponseClose(i) ==
    /\ i \in 1..Len(serverless.requests)
    /\ ~serverless.requests[i].closed
    /\ LET p == serverless.requests[i].pair
       IN  serverless' =
             [requests |-> [serverless.requests EXCEPT ![i].closed = TRUE],
              pairs |->
                IF p = 0 THEN serverless.pairs
                ELSE [serverless.pairs EXCEPT ![p] = onresponseclose(@)]]
    /\ UNCHANGED <<routerVars, call, startup>>

ServerlessNext ==
    \/ \E method \in ServerlessMethods : ServerlessRequest(method)
    \/ \E i \in 1..Len(serverless.requests), outcome \in ServerlessOutcomes :
          ServerlessSettles(i, outcome)
    \/ \E i \in 1..Len(serverless.requests) : ServerlessResponseClose(i)

ServerlessSpec == Init /\ [][ServerlessNext]_vars

\* The step is the 'end' callback of a POST on /mcp.
McpPostEnds == last'.ev = "end" /\ last'.path = "/mcp"

\* The step is the listener serving a request with this method on /mcp.
McpRequest(method) ==
    last'.ev = "request" /\ last'.path = "/mcp" /\ last'.method = method

RegistriesUnchanged ==
    /\ streamableTransports' = streamableTransports
    /\ sseTransports' = sseTransports

NothingCreated ==
    /\ last'.made = 0
    /\ transports' = transports
    /\ issued' = issued

StreamableSessions == DOMAIN streamableTransports

\* C1: a POST on /mcp without session header whose body is an initialize
\* request creates a new transport and hands the request to it; when that
\* transport starts its session, it is registered in the streamable registry
\* under the identifier generated then, and otherwise nothing is registered;
\* every other entry of both registries stays as it was.
C1_InitializeCreatesSession ==
    [][ (McpPostEnds /\ last'.sid = Absent /\ last'.body = "initialize")
        => LET t == Len(transports) + 1
               id == transports'[t].sessionId
           IN  /\ Len(transports') = t
               /\ \A u \in 1..Len(transports) : transports'[u] = transports[u]
               /\ transports'[t].kind = "streamable"
               /\ ~transports'[t].closed
               /\ last'.made = t
               /\ last'.fwd = t
               /\ sseTransports' = sseTransports
               /\ IF TruthyId(id)
                  THEN /\ id \notin IssuedIds
                       /\ DOMAIN streamableTransports' = StreamableSessions \cup {id}
                       /\ streamableTransports'[id] = t
                       /\ \A k \in StreamableSessions :
                             streamableTransports'[k] = streamableTransports[k]
                  ELSE streamableTransports' = streamableTransports ]_vars

\* C1 witness: a second session has been created by an initialize request
\* while another session was registered.
C1_Witness ==
    /\ last.ev = "end" /\ last.path = "/mcp"
    /\ last.sid = Absent /\ last.body = "initialize"
    /\ last.made = 2 /\ last.fwd = 2
    /\ Cardinality(StreamableSessions) = 2
    /\ streamableTransports[transports[2].sessionId] = 2

\* C2: a POST on /mcp whose header named a registered session when it
\* arrived, and whose body is valid JSON, is handed to the transport that
\* was registered under that identifier and to no other; no transport is
\* created and no registry changes, also when the body is an initialize
\* request.
C2_SessionPostReachesItsTransport ==
    [][ /\ (last'.ev = "arrive" /\ last'.path = "/mcp"
                /\ last'.sid \in StreamableSessions)
           => /\ last'.captured = streamableTransports[last'.sid]
              /\ pending'[Len(pending')].transport = streamableTransports[last'.sid]
        /\ (McpPostEnds /\ IsTransport(last'.captured) /\ last'.body # "not json")
           => /\ last'.fwd = last'.captured
              /\ transports[last'.fwd].sessionId = last'.sid
              /\ NothingCreated
              /\ RegistriesUnchanged ]_vars

\* C2 witness: with two sessions registered, an initialize request sent
\* with the header of the first one has been handed to its transport.
C2_Witness ==
    /\ last.ev = "end" /\ last.path = "/mcp"
    /\ last.body = "initialize"
    /\ Cardinality(StreamableSessions) = 2
    /\ last.sid \in StreamableSessions
    /\ last.fwd = 1
    /\ streamableTransports[last.sid] = 1

\* C8: a POST on /mcp whose body is not valid JSON is answered with
\* HTTP 400 and the JSON-RPC error -32700 'Parse error', with or without a
\* registered session identifier; no transport is called or created and no
\* registry changes.
C8_InvalidJsonIsParseError ==
    [][ (McpPostEnds /\ last'.body = "not json")
        => /\ last'.status = 400
           /\ last'.code = ParseErrorCode
           /\ last'.msg = "Parse error"
           /\ last'.fwd = 0
           /\ NothingCreated
           /\ RegistriesUnchanged ]_vars

\* C8 witness: a POST carrying a registered identifier and a body that is
\* not JSON has been answered with the parse error.
C8_Witness ==
    /\ last.ev = "end" /\ last.path = "/mcp"
    /\ last.body = "not json"
    /\ last.sid \in StreamableSessions
    /\ IsTransport(last.captured)
    /\ last.status = 400

\* The identifiers of the streamable sessions whose transport has closed.
ClosedSessions ==
    {transports[t].sessionId :
        t \in {u \in 1..Len(transports) :
                  transports[u].kind = "streamable" /\ transports[u].closed}}

\* The step is a request on /mcp that arrives carrying identifier id: a GET
\* or a DELETE, or a POST (its arrival, and the end of its body if the
\* identifier did not resolve on arrival).
McpArrivalWith(ids) ==
    /\ last'.path = "/mcp"
    /\ last'.sid \in ids
    /\ \/ last'.ev \in {"request", "arrive"}
       \/ last'.ev = "end" /\ last'.captured = Undefined

\* C3: a POST on /mcp with valid JSON whose header names no registered
\* session, or that has no header and is not an initialize request, is
\* answered with HTTP 400 and the JSON-RPC error -32000; no transport is
\* created or called and both registries are unchanged.
C3_NoSessionIsRejected ==
    [][ (/\ McpPostEnds
         /\ last'.body # "not json"
         /\ ~IsTransport(last'.captured)
         /\ last'.sid \notin StreamableSessions
         /\ last'.sid = Absent => last'.body # "initialize")
        => /\ last'.status = 400
           /\ last'.code = NoSessionCode
           /\ last'.msg = "Bad Request: No valid session ID provided"
           /\ last'.fwd = 0
           /\ NothingCreated
           /\ RegistriesUnchanged ]_vars

\* C4: a POST on /mcp carrying an identifier the server never issued is
\* answered with the 'no valid session ID' error, whatever its body is.
C4_UnknownIdIsNoSessionError ==
    [][ (McpPostEnds /\ TruthyId(last'.sid) /\ last'.sid \notin IssuedIds)
        => /\ last'.status = 400
           /\ last'.code = NoSessionCode
           /\ last'.msg = "Bad Request: No valid session ID provided" ]_vars

\* C5: once a DELETE on /mcp has closed a session's transport, the
\* identifier is not in the registry and is never registered again, and
\* every GET, POST or DELETE on /mcp that arrives with it afterwards is
\* answered with HTTP 400 and handed to no transport.
C5_DeletedSessionStaysDeleted ==
    [][ /\ \A id \in ClosedSessions :
              id \in ClosedSessions' /\ id \notin DOMAIN streamableTransports'
        /\ McpArrivalWith(ClosedSessions)
           => /\ last'.fwd = 0
              /\ last'.captured = Undefined
              /\ last'.ev # "arrive" => last'.status = 400
              /\ RegistriesUnchanged ]_vars

\* C5 witness: a GET carrying the identifier of a session closed by a
\* DELETE has been rejected.
C5_Witness ==
    /\ last.ev = "request" /\ last.path = "/mcp" /\ last.method = "GET"
    /\ last.sid \in ClosedSessions
    /\ last.status = 400
    /\ last.fwd = 0

\* C6: a GET on /mcp is handed to a transport only when its header names a
\* registered session, and then to the transport of that session; a GET or
\* DELETE on /mcp whose identifier is missing or not registered is answered
\* with HTTP 400 'Invalid or missing session ID', is handed to no transport
\* and leaves the registries unchanged.
C6_GetAndDeleteNeedSession ==
    [][ (McpRequest("GET") \/ McpRequest("DELETE"))
        => /\ (last'.method = "GET" /\ last'.fwd # 0)
              => /\ last'.sid \in StreamableSessions
                 /\ last'.fwd = streamableTransports[last'.sid]
           /\ last'.sid \notin StreamableSessions
              => /\ last'.status = 400
                 /\ last'.msg = "Invalid or missing session ID"
                 /\ last'.fwd = 0
                 /\ RegistriesUnchanged ]_vars

\* C7: no request ends the server process.
C7_ServerSurvivesEveryRequest == crashed = FALSE

\* A registry entry whose transport has closed.
Stale(registry) == {id \in DOMAIN registry : transports[registry[id]].closed}

\* C9: in every state no entry of either registry refers to a transport
\* that has closed.
C9_NoEntryForClosedTransport ==
    Stale(streamableTransports) = {} /\ Stale(sseTransports) = {}

\* C9 witness: a streamable transport closed by a DELETE and a legacy
\* transport closed with its connection, neither of them registered.
C9_Witness ==
    /\ \E t \in 1..Len(transports) :
          transports[t].kind = "streamable" /\ transports[t].closed
    /\ \E t \in 1..Len(transports) :
          transports[t].kind = "sse" /\ transports[t].closed

\* Transport t has an entry in a registry of the running process.
Registered(t) ==
    /\ ~crashed
    /\ \/ \E id \in DOMAIN streamableTransports : streamableTransports[id] = t
       \/ \E id \in DOMAIN sseTransports : sseTransports[id] = t

\* The connection of the client of session t has just closed: by a DELETE
\* that the transport carried out, or with its socket.
ConnectionClosed(t) ==
    \/ last.ev = "socket close" /\ last.captured = t
    \/ last.method = "DELETE" /\ last.fwd = t /\ transports[t].closed

\* C10: after the client connection of a session has closed, by a DELETE
\* or with its socket, the session's entry is eventually removed from its
\* registry, for streamable and for legacy sessions.
C10_ClosedConnectionIsUnregistered ==
    \A t \in 1..MaxTransports : ConnectionClosed(t) ~> ~Registered(t)

\* The entries of a registry, as pairs of identifier and transport.
Entries(registry) == {<<id, registry[id]>> : id \in DOMAIN registry}

AllEntries == Entries(streamableTransports) \cup Entries(sseTransports)

\* The identifiers that stay registered over the step keep their transport.
EntriesKept(registry, registryAfter) ==
    \A id \in DOMAIN registry \cap DOMAIN registryAfter :
       registryAfter[id] = registry[id]

\* C11: after every step each registered identifier maps to one transport
\* that exists, and no transport is registered under two identifiers; an
\* identifier that stays registered keeps its transport; an entry created
\* by the step, also by one of several initialize requests in flight at
\* the same time, has an identifier that was not registered and a transport
\* that no entry held.
C11_OneTransportPerSession ==
    [][ /\ \A e \in AllEntries' : e[2] \in 1..Len(transports')
        /\ \A e1, e2 \in AllEntries' : (e1[1] = e2[1] \/ e1[2] = e2[2]) => e1 = e2
        /\ EntriesKept(streamableTransports, streamableTransports')
        /\ EntriesKept(sseTransports, sseTransports')
        /\ \A e \in AllEntries' \ AllEntries :
              /\ e[1] \notin {f[1] : f \in AllEntries}
              /\ e[2] \notin {f[2] : f \in AllEntries}
              /\ e[2] = last'.made ]_vars

\* C11 witness: an initialize request has created the second session while
\* another POST without header, which arrived before the body of this one
\* was read, is still in flight.
C11_Witness ==
    /\ last.ev = "end" /\ last.path = "/mcp"
    /\ last.sid = Absent /\ last.body = "initialize"
    /\ last.made = 2 /\ last.pos = 2
    /\ Cardinality(StreamableSessions) = 2
    /\ Len(pending) = 1 /\ pending[1].sid = Absent /\ pending[1].route = "/mcp"

\* The POSTs on /mcp bound to transport t that arrived before the POST at
\* place pos and are still waiting for their body.
EarlierInFlight(t, pos) ==
    {k \in 1..(pos - 1) : pending[k].route = "/mcp" /\ pending[k].transport = t}

\* C12: a POST on /mcp is handed to its session's transport only when no
\* POST of the same session that arrived before it is still waiting to be
\* handed over: the transport receives the POSTs of a session in the order
\* of their arrival, whatever the order in which their bodies end.
C12_PostsHandedOverInArrivalOrder ==
    [][ (McpPostEnds /\ IsTransport(last'.captured) /\ last'.fwd # 0)
        => EarlierInFlight(last'.fwd, last'.pos) = {} ]_vars

LegacySessions == DOMAIN sseTransports

\* The step is the listener or the 'end' callback answering or forwarding a
\* POST on /messages.
MessagesServed == last'.path = "/messages" /\ last'.ev \in {"request", "end"}

\* C13: a GET on /sse creates a new legacy transport and registers it in
\* the legacy registry under the transport's own identifier; a POST on
\* /messages is handed to a transport only if its sessionId parameter names
\* a session that is registered in the legacy registry at that moment, and
\* then to the transport of that session; a POST on /messages whose
\* identifier is missing or names no registered legacy session is answered
\* with HTTP 400, is handed to no transport and changes no registry.
C13_LegacyRouting ==
    [][ /\ (last'.path = "/sse" /\ last'.ev = "request")
           => LET t == Len(transports) + 1
                  id == transports'[t].sessionId
              IN  /\ Len(transports') = t
                  /\ transports'[t].kind = "sse"
                  /\ last'.made = t
                  /\ TruthyId(id)
                  /\ id \notin LegacySessions
                  /\ sseTransports' = Store(sseTransports, id, t)
                  /\ streamableTransports' = streamableTransports
        /\ (MessagesServed /\ last'.fwd # 0)
           => /\ last'.sid \in LegacySessions
              /\ sseTransports[last'.sid] = last'.fwd
        /\ (MessagesServed /\ last'.sid \notin LegacySessions)
           => /\ last'.status = 400
              /\ last'.fwd = 0
              /\ NothingCreated
              /\ RegistriesUnchanged ]_vars

\* The identifiers of the sessions created so far through one route: /mcp
\* (kind "streamable") or /sse (kind "sse").
CreatedThrough(kind) ==
    {transports[t].sessionId :
        t \in {u \in 1..Len(transports) : transports[u].kind = kind}} \ {Absent}

\* C14: a request on /mcp carrying an identifier created through /sse
\* resolves to no transport, is handed to none and is answered with HTTP
\* 400; a POST on /messages carrying an identifier created through /mcp is
\* answered with HTTP 400 when it arrives and is handed to no transport; no
\* step changes both registries, so creating or removing a session in one
\* leaves the other as it was.
C14_RegistriesDoNotInteract ==
    [][ /\ (last'.path = "/mcp" /\ last'.sid \in CreatedThrough("sse"))
           => /\ last'.captured = Undefined
              /\ last'.fwd = 0
              /\ last'.ev # "arrive" => last'.status = 400
              /\ RegistriesUnchanged
        /\ (last'.path = "/messages" /\ last'.sid \in CreatedThrough("streamable"))
           => /\ last'.ev = "request"
              /\ last'.captured = Undefined
              /\ last'.fwd = 0
              /\ last'.status = 400
              /\ RegistriesUnchanged
        /\ \/ streamableTransports' = streamableTransports
           \/ sseTransports' = sseTransports
        /\ (last'.made # 0 /\ last'.path = "/sse")
           => streamableTransports' = streamableTransports
        /\ (last'.made # 0 \/ last'.method = "DELETE") /\ last'.path = "/mcp"
           => sseTransports' = sseTransports ]_vars

\* C14 witness: with a session registered in each registry, a POST on
\* /messages carrying the identifier of the streamable session has been
\* rejected.
C14_Witness ==
    /\ last.path = "/messages"
    /\ last.sid \in StreamableSessions
    /\ LegacySessions # {}
    /\ last.status = 400
    /\ last.fwd = 0

\* The step answers with this status and body, calls and creates no
\* transport (the tool handlers, and with them Stripe, are reached through a
\* transport only), and leaves the registries, the POSTs in flight and the
\* process as they were.
AnsweredStatically(status, msg) ==
    /\ last'.status = status
    /\ last'.code = 0
    /\ last'.msg = msg
    /\ last'.fwd = 0
    /\ NothingCreated
    /\ RegistriesUnchanged
    /\ pending' = pending
    /\ crashed' = crashed

\* C15 as stated: every request to /health is answered with HTTP 200 and
\* the fixed health payload, and every request to / with HTTP 200 and the
\* fixed service metadata, without a transport being called or a registry
\* changed.
C15_HealthAndIndexAlwaysPayload ==
    [][ /\ last'.path = "/health" => AnsweredStatically(200, "healthy")
        /\ last'.path = "/" => AnsweredStatically(200, "Stripe MCP Server") ]_vars

\* C15 amended: a request to /health with a method other than OPTIONS is
\* answered with HTTP 200 and the fixed health payload, and a request to /
\* with a method other than OPTIONS with HTTP 200 and the fixed service
\* metadata, whatever the registries hold; an OPTIONS request to either
\* path is answered with HTTP 200 and no body; none of them calls a
\* transport or changes a registry.
C15_HealthAndIndexAreStatic ==
    [][ /\ (last'.path = "/health" /\ last'.method # "OPTIONS")
           => last'.ev = "health" /\ AnsweredStatically(200, "healthy")
        /\ (last'.path = "/" /\ last'.method # "OPTIONS")
           => last'.ev = "index" /\ AnsweredStatically(200, "Stripe MCP Server")
        /\ (last'.path \in {"/health", "/"} /\ last'.method = "OPTIONS")
           => last'.ev = "options" /\ AnsweredStatically(200, "") ]_vars

\* C15 witness: /health has been answered with the payload while a session
\* is registered in each registry and a POST is in flight.
C15_Witness ==
    /\ last.ev = "health" /\ last.path = "/health"
    /\ last.status = 200 /\ last.msg = "healthy"
    /\ StreamableSessions # {}
    /\ LegacySessions # {}
    /\ pending # << >>

\* The paths the listener has a branch for.
KnownPaths == {"/mcp", "/sse", "/messages", "/health", "/"}

\* The step serves a request whose path the listener has no branch for.
UnknownPathRequest == last'.path \in Paths \ KnownPaths

\* C16 as stated: every request whose path is none of /mcp, /sse,
\* /messages, /health and / is answered with HTTP 404 and the not-found
\* body, creates no session and leaves both registries unchanged.
C16_UnknownPathIsNotFound ==
    [][ UnknownPathRequest => AnsweredStatically(404, "Not found") ]_vars

\* C16 amended: a request with a method other than OPTIONS whose path is
\* none of /mcp, /sse, /messages, /health and / is answered with HTTP 404
\* and the not-found body; an OPTIONS request to such a path is answered
\* with HTTP 200 and no body; neither creates a session or changes a
\* registry.
C16_UnknownPathIsNotFoundUnlessOptions ==
    [][ /\ (UnknownPathRequest /\ last'.method # "OPTIONS")
           => last'.ev = "not found" /\ AnsweredStatically(404, "Not found")
        /\ (UnknownPathRequest /\ last'.method = "OPTIONS")
           => last'.ev = "options" /\ AnsweredStatically(200, "") ]_vars

\* C16 witness: a DELETE on an unknown path has been answered with 404
\* while sessions are registered.
C16_Witness ==
    /\ last.ev = "not found" /\ last.path = "/nope" /\ last.method = "DELETE"
    /\ last.status = 404 /\ last.msg = "Not found"
    /\ StreamableSessions # {}
    /\ LegacySessions # {}

----------------------------------------------------------------------------
\* Properties of the tool handlers

\* A handler has been called with these arguments.
Called(tool) == call.stage # "none" /\ call.tool = tool

\* The handler has returned { success: false, error } with a text and has
\* not called Stripe.
Rejected ==
    /\ call.stage = "returned"
    /\ call.requests = << >>
    /\ ~call.response.success
    /\ call.response.error # ""
    /\ call.response.result = None

\* The required arguments that the call leaves out.
Missing ==
    LET a == call.args
        id == IF call.tool = "stripe_products" THEN "product_id"
              ELSE IF call.tool = "stripe_prices" THEN "price_id"
              ELSE IF call.tool = "stripe_webhooks" THEN "webhook_id"
              ELSE "configuration_id"
    IN  IF call.tool \in {"stripe_connect", "stripe_query"} THEN {}
        ELSE IF a.action \in {"retrieve", "update", "archive", "delete"}
        THEN IF a[id] = Absent THEN {id} ELSE {}
        ELSE IF a.action # "create" THEN {}
        ELSE IF call.tool = "stripe_products"
        THEN IF a.name = Absent THEN {"name"} ELSE {}
        ELSE IF call.tool = "stripe_prices"
        THEN (IF a.product_id = Absent THEN {"product_id"} ELSE {})
             \cup (IF a.unit_amount = None THEN {"unit_amount"} ELSE {})
        ELSE IF call.tool = "stripe_webhooks"
        THEN (IF a.url = Absent THEN {"url"} ELSE {})
             \cup (IF a.enabled_events = None THEN {"enabled_events"} ELSE {})
        ELSE {}

\* The arguments each '... required ...' error text names.
NamedBy(error) ==
    IF error = "Product name is required for create action" THEN {"name"}
    ELSE IF error \in {"Product ID is required for retrieve action",
                       "Product ID is required for update action",
                       "Product ID is required for archive action"}
    THEN {"product_id"}
    ELSE IF error = "Product ID and unit_amount are required for create action"
    THEN {"product_id", "unit_amount"}
    ELSE IF error \in {"Price ID is required for retrieve action",
                       "Price ID is required for update action",
                       "Price ID is required for archive action"}
    THEN {"price_id"}
    ELSE IF error = "URL and enabled_events are required for create action"
    THEN {"url", "enabled_events"}
    ELSE IF error \in {"Webhook ID is required for retrieve action",
                       "Webhook ID is required for update action",
                       "Webhook ID is required for delete action"}
    THEN {"webhook_id"}
    ELSE IF error \in {"Configuration ID is required for retrieve action",
                       "Configuration ID is required for update action"}
    THEN {"configuration_id"}
    ELSE {}

\* The call has a metadata argument that is a string and not valid JSON.
MetadataTools == {"stripe_products", "stripe_prices"}
InvalidMetadata == call.tool \in MetadataTools /\ call.args.metadata \in {"", "not json"}

\* C17 as stated: every call of the product, price, webhook or portal
\* configuration tool that leaves out a required argument of its action is
\* answered { success: false, error } with a '... required ...' text that
\* names the missing argument, without a call to Stripe.
C17_MissingArgumentIsNamed ==
    (call.stage # "none" /\ Missing # {})
    => Rejected /\ Missing \subseteq NamedBy(call.response.error)

\* C17 amended: such a call is answered { success: false, error } without a
\* call to Stripe; the error text is 'Invalid metadata JSON format' when the
\* call is to the product or price tool with a non-empty metadata string
\* that is not valid JSON, and otherwise the '... required ...' text that
\* names the missing argument.
C17_MissingArgumentIsRejected ==
    (call.stage # "none" /\ Missing # {})
    => /\ Rejected
       /\ IF call.tool \in MetadataTools /\ call.args.metadata = "not json"
          THEN call.response.error = "Invalid metadata JSON format"
          ELSE Missing \subseteq NamedBy(call.response.error)

\* C17 witness: a price create without unit_amount, with valid metadata,
\* has been rejected with the text naming unit_amount.
C17_Witness ==
    /\ Called("stripe_prices")
    /\ call.args.action = "create"
    /\ call.args.product_id = "id_123"
    /\ call.args.unit_amount = None
    /\ call.args.metadata = "{\"category\":\"premium\"}"
    /\ Rejected
    /\ "unit_amount" \in NamedBy(call.response.error)

\* C18: every call of the product or price tool, whatever its action, whose
\* metadata argument is a string that is not valid JSON is answered
\* { success: false, error: 'Invalid metadata JSON format' } without a call
\* to Stripe.
C18_InvalidMetadataIsRejected ==
    (call.stage # "none" /\ InvalidMetadata)
    => Rejected /\ call.response.error = "Invalid metadata JSON format"

\* The urls that start with 'https://'.
SecureUrls == {"https://example.com/hook"}

\* C19: a webhook create call whose url does not start with 'https://' is
\* answered { success: false, error } without a call to Stripe, whatever
\* the other arguments are.
C19_InsecureWebhookUrlIsRejected ==
    (Called("stripe_webhooks") /\ call.args.action = "create"
        /\ call.args.url \notin SecureUrls)
    => Rejected

\* C19 witness: a webhook create with an http url and every other argument
\* supplied has been rejected.
C19_Witness ==
    /\ Called("stripe_webhooks")
    /\ call.args.action = "create"
    /\ call.args.url = "http://example.com/hook"
    /\ call.args.enabled_events = Some(<<"item">>)
    /\ call.args.description = "text"
    /\ call.args.webhook_id = "id_123"
    /\ Rejected
    /\ call.response.error = "Webhook URL must start with https://"

\* The Stripe call of the handler has failed.
StripeFailed == call.stage # "none" /\ call.outcome.kind = "rejected"

\* C20: when the Stripe call of a handler has failed, the handler has
\* returned (it has not thrown), it has called Stripe once, and its response
\* is { success: false, error } with the message of the error (the text of
\* the thrown value when that is no Error).
C20_StripeFailureIsReturned ==
    StripeFailed
    => /\ call.stage = "returned"
       /\ Len(call.requests) = 1
       /\ ~call.response.success
       /\ call.response.result = None
       /\ call.response.error =
             IF call.outcome.error.instanceofError
             THEN call.outcome.error.message
             ELSE call.outcome.error.value

\* C20 witness: the update call of the product tool has failed with a Stripe
\* error and the handler has returned its message.
C20_Witness ==
    /\ Called("stripe_products")
    /\ call.args.action = "update"
    /\ StripeFailed
    /\ call.outcome.error.instanceofError
    /\ call.stage = "returned"
    /\ call.response.error = "No such product"

\* The handler has finished the call.
Finished == call.stage \in {"returned", "thrown"}

\* C21 as stated: every tool call that has finished has performed exactly
\* one Stripe operation.
C21_ExactlyOneOperation == Finished => Len(call.requests) = 1

\* C21 amended: a tool call performs at most one Stripe operation: none when
\* the tool is stripe_connect or the handler answers without awaiting Stripe
\* (a validation error), and exactly one when Stripe has resolved or
\* rejected the call or the handler of another tool answers success: true.
C21_AtMostOneOperation ==
    /\ call.stage # "none" => Len(call.requests) <= 1
    /\ call.stage = "awaiting" => Len(call.requests) = 1
    /\ Finished =>
        /\ call.tool = "stripe_connect" => Len(call.requests) = 0
        /\ call.outcome.kind = "none" => Len(call.requests) = 0
        /\ call.outcome.kind # "none" => Len(call.requests) = 1
        /\ (call.tool # "stripe_connect" /\ call.response.success)
            => Len(call.requests) = 1

\* C21 witness: a price create has been answered success: true after one
\* call of stripe.prices.create.
C21_Witness ==
    /\ Called("stripe_prices")
    /\ call.args.action = "create"
    /\ Finished
    /\ call.response.success
    /\ Len(call.requests) = 1
    /\ call.requests[1].api = "prices.create"

\* Stripe has returned an object for a retrieve call of the product tool.
ProductRetrieved ==
    /\ Called("stripe_products")
    /\ call.args.action = "retrieve"
    /\ call.outcome.kind = "resolved"

\* C22: when Stripe has returned a product for a retrieve call of the
\* product tool, the handler has returned { success: true, product: the
\* returned object, message: 'Retrieved product: <its name>' } and has made
\* one call, stripe.products.retrieve with the product_id of the caller.
C22_RetrieveReturnsProduct ==
    ProductRetrieved
    => /\ call.stage = "returned"
       /\ call.response.success
       /\ call.response.key = "product"
       /\ call.response.result = <<call.outcome.result>>
       /\ call.response.message =
             <<"Retrieved product: ", call.outcome.result.name>>
       /\ Len(call.requests) = 1
       /\ call.requests[1].api = "products.retrieve"
       /\ call.requests[1].id = call.args.product_id
       /\ call.args.product_id \notin {Absent, ""}

\* C22 witness: the second product of the stub has been retrieved and
\* reported by its name.
C22_Witness ==
    /\ ProductRetrieved
    /\ call.args.product_id = "id_123"
    /\ call.outcome.result.name = "Basic plan"
    /\ call.response.message = <<"Retrieved product: ", "Basic plan">>

\* The handler has sent an update of the caller's to Stripe.
UpdateSent ==
    /\ call.stage # "none"
    /\ call.tool \in {"stripe_products", "stripe_prices", "stripe_webhooks",
                      "stripe_portal_config"}
    /\ call.args.action = "update"
    /\ Len(call.requests) > 0

\* The caller has supplied the argument.
Supplied(argument) ==
    IF argument \in {"images", "active", "enabled", "enabled_events"}
           \cup {"features_customer_update_allowed_updates",
                 "features_invoice_history_enabled",
                 "features_payment_method_update_enabled",
                 "features_subscription_cancel_enabled",
                 "features_subscription_pause_enabled",
                 "features_subscription_update_enabled"}
    THEN call.args[argument] # None
    ELSE call.args[argument] # Absent

\* The arguments of the caller that a field of the parameter bag of an
\* update carries.
CarriedBy(field) ==
    IF call.tool = "stripe_webhooks" /\ field = "disabled" THEN {"enabled"}
    ELSE IF call.tool # "stripe_portal_config" THEN {field}
    ELSE IF field = "business_profile"
    THEN {"business_profile_headline", "business_profile_privacy_policy_url",
          "business_profile_terms_of_service_url"}
    ELSE IF field = "default_return_url" THEN {"default_return_url"}
    ELSE IF field = "customer_update"
    THEN {"features_customer_update_allowed_updates"}
    ELSE IF field = "invoice_history" THEN {"features_invoice_history_enabled"}
    ELSE IF field = "payment_method_update"
    THEN {"features_payment_method_update_enabled"}
    ELSE IF field = "subscription_cancel"
    THEN {"features_subscription_cancel_enabled"}
    ELSE IF field = "subscription_pause"
    THEN {"features_subscription_pause_enabled"}
    ELSE IF field = "subscription_update"
    THEN {"features_subscription_update_enabled"}
    ELSE {}

\* The fields of the parameter bag sent to Stripe, those of the features
\* of a portal configuration taken one by one.
SentFields ==
    LET params == call.requests[1].params
    IN  (DOMAIN params \ {"features"})
        \cup (IF "features" \in DOMAIN params
              THEN DOMAIN params.features ELSE {})

\* C29: the parameter bag of every update sent to Stripe has only fields
\* that carry an argument the caller supplied.
C29_UpdateSendsOnlySuppliedFields ==
    UpdateSent
    => \A field \in SentFields :
          \E argument \in CarriedBy(field) : Supplied(argument)

\* The query tool has called Stripe.
QuerySent == Called("stripe_query") /\ Len(call.requests) > 0

\* C30: the limit the query tool passes to Stripe lies in 1..100: it is the
\* requested limit when that lies in 1..100, 100 when the requested limit
\* is greater, 1 when it is negative, and 10 when it is absent or 0.
C30_QueryLimitIsClamped ==
    QuerySent
    => LET requested == call.args.limit
           passed == call.requests[1].params.limit
       IN  /\ passed \in 1..100
           /\ passed =
                IF requested = << >> \/ requested = <<0>> THEN 10
                ELSE IF requested[1] < 0 THEN 1
                ELSE IF requested[1] > 100 THEN 100
                ELSE requested[1]

\* C30 witness: a query with a limit of 250 has been sent with limit 100.
C30_Witness ==
    /\ QuerySent
    /\ call.args.limit = <<250>>
    /\ call.requests[1].params.limit = 100
    /\ call.requests[1].api = "paymentIntents.list"

----------------------------------------------------------------------------
\* Properties of the router, continued

\* The step is the callback that serves a request: the listener when it
\* does not wait for a body, or the 'end' callback of a body it waited for.
Serves ==
    last'.ev \in {"request", "end"} \cup StaticBranches

\* C26: every request is served with an answer of the router or by being
\* handed to a transport, whatever its path and method; stated of the
\* callback that serves the request without ending the process, after
\* which the router has no callback left for the request.
C26_EveryRequestIsServed ==
    [][ (Serves /\ ~crashed') => (last'.status # 0 \/ last'.fwd # 0) ]_vars

\* C27: a POST on /mcp is handed to a transport that existed before only
\* if, at the moment of the hand-over, that transport is open and
\* registered under the identifier of the request.
C27_HandOverToRegisteredTransport ==
    [][ (McpPostEnds /\ last'.fwd # 0 /\ last'.made = 0)
        => /\ last'.sid \in StreamableSessions
           /\ streamableTransports[last'.sid] = last'.fwd
           /\ ~transports[last'.fwd].closed ]_vars

\* The step is a lookup of an identifier in a registry: the arrival of a
\* POST on /mcp or /messages, or a GET or DELETE on /mcp.
LooksUp(path) ==
    /\ last'.path = path
    /\ last'.ev \in {"arrive", "request"}

\* C28: an identifier is taken for a registered session, on /mcp or on
\* /messages, only if it is an entry of the registry of that route, put
\* there by session creation and not removed since.
C28_OnlyEntriesResolve ==
    [][ /\ (LooksUp("/mcp") /\ last'.captured # Undefined)
           => /\ last'.sid \in StreamableSessions
              /\ last'.sid \in CreatedThrough("streamable")
        /\ (LooksUp("/messages") /\ last'.captured # Undefined)
           => /\ last'.sid \in LegacySessions
              /\ last'.sid \in CreatedThrough("sse") ]_vars

----------------------------------------------------------------------------
\* Properties of the single-endpoint wrappers

\* The promise of a wrapper has settled.
WrapperSettled == call.stage \in {"resolved", "rejected"}

\* C23: the promise of every wrapper call resolves, whatever the argument
\* bag and however the fetch settles, either to the decoded JSON of a
\* Stripe response with an ok status or to the wrapper's
\* { error: 'An error occurred ...' } envelope; it never rejects.
C23_WrapperNeverRejects ==
    WrapperSettled
    => /\ call.stage = "resolved"
       /\ \/ /\ call.outcome.kind = "response"
             /\ call.outcome.ok
             /\ call.outcome.body = "{\"category\":\"premium\"}"
             /\ call.response = "{category: premium}"
          \/ call.response \in
                {[error |-> "An error occurred while creating the webhook endpoint."],
                 [error |-> "An error occurred while creating the portal configuration."],
                 [error |-> "An error occurred while deleting the coupon."]}

----------------------------------------------------------------------------
\* Properties of the start of the process

\* A secret key is supplied on the command line: --api-key=<key> with a key
\* that is not empty, or --api-key followed by another argument.
KeyOnCommandLine ==
    \E i \in 1..Len(startup.argv) :
        \/ /\ Len(startup.argv[i].pieces) >= 2
           /\ startup.argv[i].pieces[1] = "--api-key"
           /\ startup.argv[i].pieces[2] # ""
        \/ /\ startup.argv[i].text = "--api-key"
           /\ i < Len(startup.argv)

\* No secret key is supplied, by --api-key or by STRIPE_SECRET_KEY.
NoKeySupplied ==
    /\ startup.stage # "not started"
    /\ ~KeyOnCommandLine
    /\ startup.env.STRIPE_SECRET_KEY \in {Absent, ""}

\* C24: when no secret key is supplied, the process, once its module body
\* has run, has written an error message to stderr and has exited with a
\* non-zero code, and no MCP server, transport or HTTP listener has been
\* created.
C24_NoKeyNoStart ==
    NoKeySupplied
    => /\ startup.mcpServer = FALSE
       /\ startup.transport = "none"
       /\ startup.listening = << >>
       /\ startup.stripe = Absent
       /\ startup.stage \in {"launched", "exited"}
       /\ startup.stage = "exited"
          => /\ Len(startup.stderr) = 1
             /\ startup.stderr[1] = "Stripe API key is required. Provide it via --api-key argument or STRIPE_SECRET_KEY environment variable"
             /\ startup.exitCode # << >>
             /\ startup.exitCode[1] # 0

\* C24 witness: the process was started for HTTP with --api-key as its
\* last argument and an empty STRIPE_SECRET_KEY, and has exited.
C24_Witness ==
    /\ NoKeySupplied
    /\ startup.stage = "exited"
    /\ Len(startup.argv) = 2
    /\ startup.argv[1].text = "--transport=http"
    /\ startup.argv[2].text = "--api-key"
    /\ startup.env.STRIPE_SECRET_KEY = ""
    /\ startup.exitCode = <<1>>

----------------------------------------------------------------------------
\* Properties of the serverless handler

\* The places of the POSTs among the requests received.
ServerlessPosts ==
    {i \in 1..Len(serverless.requests) : serverless.requests[i].method = "POST"}

\* C25: every POST has a server and a transport that were created for it
\* and serve no other request; the transport has no session identifier;
\* nothing else is created or kept; and the server and the transport of a
\* POST are closed exactly when the response of that POST has closed.
C25_ServerlessIsStateless ==
    /\ \A i \in ServerlessPosts :
          LET r == serverless.requests[i]
          IN  /\ r.pair \in 1..Len(serverless.pairs)
              /\ serverless.pairs[r.pair].createdFor = i
              /\ \A j \in 1..Len(serverless.requests) :
                    j # i => serverless.requests[j].pair # r.pair
              /\ serverless.pairs[r.pair].sessionId = Absent
              /\ serverless.pairs[r.pair].serverClosed = r.closed
              /\ serverless.pairs[r.pair].transportClosed = r.closed
    /\ \A i \in 1..Len(serverless.requests) \ ServerlessPosts :
          serverless.requests[i].pair = 0
    /\ Len(serverless.pairs) = Cardinality(ServerlessPosts)

\* C25 witness: of two POSTs the first has been answered and its response
\* has closed, with its server and transport; the second is served by
\* another server and transport, which are open.
C25_Witness ==
    /\ Len(serverless.requests) >= 2
    /\ serverless.requests[1].method = "POST"
    /\ serverless.requests[2].method = "POST"
    /\ serverless.requests[1].closed
    /\ serverless.requests[1].status = 200
    /\ ~serverless.requests[2].closed
    /\ serverless.requests[1].pair = 1
    /\ serverless.requests[2].pair = 2
    /\ serverless.pairs[1].transportClosed
    /\ ~serverless.pairs[2].transportClosed

====
